---- MODULE Spec2Model ----
(***************************************************************************)
(* Monetisation fabric of the KikuAI gateway: the PostgreSQL ledger        *)
(* (LedgerBalanceService), the PaymentEngine on top of it and the Paddle   *)
(* webhook route.  Every request is a task with its own database session;  *)
(* the only suspension points of a task are its database round trips, so   *)
(* one action below is one round trip together with the in-memory code     *)
(* that follows it up to the next round trip.                              *)
(*                                                                         *)
(* Money is counted in ledger units of 0.00000001 USD (the scale of the    *)
(* Numeric(18, 8) columns).  The cost handed to record_usage and the       *)
(* amount handed to charge_usage are finer than that: they are counted in  *)
(* 1/CostDenom of a ledger unit, and record_usage quantizes them.          *)
(***************************************************************************)
EXTENDS Integers, Sequences, FiniteSets, TLC

\* ------------------------------------------------------------------ bounds
\* number of request tasks that can be in flight together
NumProcs == 2
\* number of calls started in one behaviour
MaxCalls == 2

Procs == 1..NumProcs

\* ------------------------------------------------------------------ inputs
\* telegram ids of the accounts
TelegramIds == {1, 2}
\* idempotency keys handed to the ledger service by its callers
Keys == {"k1", "k2"}
\* amounts of add_funds, in ledger units
Amounts == {1}
\* balances earlier top-ups left on an account, in ledger units
SeedBalances == {2}
\* resolution of a cost below the ledger unit (quarters of a unit)
CostDenom == 4
\* the clock moves in ticks of TickMinutes up to MaxTime
TickMinutes == 5
MaxTime == 20
\* number of check-then-record pairs started in one behaviour
MaxQuotaCalls == 8
\* costs of record_usage, in 1/CostDenom ledger units: 0.5 and 1.5 units, the
\* ties that round half-even to 0 and to 2
Costs == {2, 6}
ProductIds == {"masker"}
\* amounts of charge_usage, in 1/CostDenom ledger units: 1 and 1.5 units
ChargeAmounts == {4, 6}
\* keys charge_usage generates, f"usage:{user_id}:{transaction.id}" with a random
\* transaction id: the n-th call of a behaviour draws the n-th of them
UsageKeys == <<"usage:1", "usage:2", "usage:3", "usage:4", "usage:5", "usage:6">>

\* Paddle-Signature header, after parsing: age of its timestamp in seconds and
\* whether its h1 equals the HMAC-SHA256 of "<ts>:<raw_body>"
MaxWebhookAge == 300
Signatures ==
    {[age |-> 0, mac_ok |-> TRUE],
     [age |-> MaxWebhookAge + 1, mac_ok |-> TRUE],
     [age |-> 0, mac_ok |-> FALSE]}
\* PaymentEngine.low_balance_threshold, Decimal("5.00"), in ledger units
LowBalanceThreshold == 500000000
\* ledger units in one cent: Decimal(total) / 100 is the amount in USD
UnitsPerCent == 1000000
\* Paddle events: user_id is custom_data.user_id (0 when missing) and total is
\* details.totals.total, in cents
PaddleEvents ==
    {[event_id |-> "evt_1", event_type |-> "transaction.completed", user_id |-> 1, total |-> 1],
     [event_id |-> "evt_2", event_type |-> "transaction.refunded", user_id |-> 1, total |-> 1],
     [event_id |-> "evt_3", event_type |-> "transaction.completed", user_id |-> 0, total |-> 1],
     [event_id |-> "evt_4", event_type |-> "transaction.payment_failed", user_id |-> 1, total |-> 1]}
\* events of the Lemon Squeezy webhook: an order of user 2 whose event id is
\* the one of the first Paddle event
LemonEvents ==
    {[event_id |-> "evt_1", event_type |-> "order_created", user_id |-> 2, total |-> 1]}
\* a Creem event: a completed checkout of user 1 (payment pay_1) for 1 cent
CreemEvents ==
    {[event_id |-> "evt_7", event_type |-> "checkout.completed", user_id |-> 1, total |-> 1]}
\* what the call of balance_service.credit_balance does: the method is not
\* among those of BalanceManager; a manager that has it credits the ledger
CreditBalanceOutcomes == {"credited", "AttributeError"}
\* PaddleProvider.max_retries
MaxRetries == 3
\* how an HTTP attempt on the Paddle API ends: a response with JSON body of
\* status 2xx, 429, 5xx or another 4xx, an httpx error, or another exception
PaddleOutcomes == {"ok", "429", "5xx", "4xx", "network", "unknown"}
\* TelegramStarsProvider.USD_TO_STARS_RATE
UsdToStarsRate == 50
\* the amount of an invoice, 1 USD in ledger units, and its price in Stars
InvoiceUsd == 100 * UnitsPerCent
InvoiceStars == 1 * UsdToStarsRate
\* successful_payment callbacks: the payer is user 1, user 2 or missing
StarsEvents ==
    {[event_id |-> "evt_s1", event_type |-> "successful_payment", user_id |-> 1, total |-> InvoiceStars],
     [event_id |-> "evt_s2", event_type |-> "successful_payment", user_id |-> 2, total |-> InvoiceStars],
     [event_id |-> "evt_s3", event_type |-> "successful_payment", user_id |-> 0, total |-> InvoiceStars]}
\* the invoice payload "topup:<user_id>:<timestamp>:<key>" of an account
StarsPayload(a) == IF a = 1 THEN "topup:1" ELSE "topup:2"
NoEvent == [event_id |-> "none", event_type |-> "none", user_id |-> 0, total |-> 0]
NoSignature == [age |-> 0, mac_ok |-> FALSE]

\* free tier: the products and callers the counters are kept for
QuotaProducts == {"chart2csv", "masker", "patas"}
\* the product the quota engine is called for directly
CheckedProducts == {"chart2csv"}
Identifiers == {"ip1"}
QuotaKeys == QuotaProducts \X Identifiers
QuotaUnits == {0, 1, 2}
DailyTtl == 172800
MonthlyTtl == 3024000
\* a key that does not exist reads as 0 and has no TTL
NoCounters == [daily |-> 0, monthly |-> 0, daily_ttl |-> 0, monthly_ttl |-> 0]
\* months that already saw traffic: the monthly counter next to a new day
UsedMonths == {0, 49}

\* gateway: the metered endpoints, by the op of their requests
GatedEndpoints == {"chart2csv", "masker", "patas"}
ProxyEndpoints == {"proxy_llm", "proxy_http"}
\* the account whose API key the authenticated requests carry
GatewayAccounts == {1}
\* messages in a patas request
MessageCount == 10
\* how an upstream call ends: 200, another status, httpx.RequestError
UpstreamOutcomes == {"ok", "status", "network"}
\* ledger units (1e-8 USD) in one credit: 1 / CREDITS_PER_USD
UnitsPerCredit == 100000
\* balances of the account when the requests arrive: overdrawn by a refund, and
\* the price of one chart2csv extraction
GatewaySeeds == {-500000, 5000000}

\* CREDITS_PER_USD
CreditsPerUsd == 1000
\* Decimal amounts handed to usd_to_credits, as whole dollars (floor) and the
\* rest in ledger units: $0, $0.001, $0.05, $5, $10, $25, $100, the ties
\* $0.0005, $0.0015, $0.0025, $0.9995, their neighbours, and negative amounts
UsdInputs ==
    {[dollars |-> d, units |-> 0] : d \in {-1, 0, 5, 10, 25, 100}} \cup
    {[dollars |-> 0, units |-> u] :
        u \in {1, 49999, 50000, 50001, 100000, 150000, 250000, 5000000,
               99950000, 99999999}} \cup
    {[dollars |-> -1, units |-> 99999999]}
\* integers handed to credits_to_usd
CreditInputs == {-100, -1, 0, 1}

\* REDIS_CB_THRESHOLD, and REDIS_CB_RECOVERY_TIME (60 seconds) in minutes
RedisCbThreshold == 5
RedisCbRecoveryTime == 1
\* how the AUTO_RECHARGE_TRIGGERED audit record ends
AuditOutcomes == {"ok", "OperationalError"}

\* minutes a magic link is valid, minutes an OAuth state is kept
MagicLinkExpiryMinutes == 15
OauthStateMinutes == 10

\* ------------------------------------------------------------------ state
VARIABLES
    accounts,       \* committed rows of table accounts, by telegram_id
    transactions,   \* committed rows of table transactions
    usage_logs,     \* committed rows of table usage_logs
    next_id,        \* next row id (ids grow in commit order)
    row_lock,       \* holders of the FOR UPDATE lock of each account row (at most one)
    pc,             \* position of each task
    call,           \* arguments, session state and outcome of each task's call
    calls,          \* number of calls started so far
    notifications,  \* notifications handed to the NotificationService
    quota,          \* Redis: free-tier counters and their TTLs, by product and identifier
    redis_up,       \* whether the Redis store answers
    upstream_calls, \* number of requests dispatched to an upstream service
    refresh_store,  \* Redis: the refresh_token:<hash> entries
    magic,          \* email_auth_token and email_auth_expires of each account
    oauth_states,   \* _oauth_states: state -> time it was stored
    issued_states,  \* history: every state google/init handed out, with its time
    next_token,     \* next value of the random token source
    now,            \* the clock, in minutes
    pending_stars,  \* Redis: the pending_stars:<payload> entries
    balance_cache,  \* Redis: the balance:<telegram_id> entries
    redis_cb_state, \* _redis_cb_state: status, last_failure, failure_count
    cache_log,      \* history: cache operations attempted and how they ended
    auto_recharge   \* auto_recharge_threshold of each account (0: not set)

vars == <<accounts, transactions, usage_logs, next_id, row_lock, pc, call, calls,
          notifications, quota, redis_up, upstream_calls,
          refresh_store, magic, oauth_states, issued_states, next_token, now,
          pending_stars, balance_cache, redis_cb_state, cache_log, auto_recharge>>
cacheVars == <<pending_stars, balance_cache, redis_cb_state, cache_log, auto_recharge>>
authVars == <<refresh_store, magic, oauth_states, issued_states, next_token, now>>
dbVars == <<accounts, transactions, usage_logs, next_id>>
gwVars == <<quota, redis_up, upstream_calls>>

\* ------------------------------------------------------------- pure helpers
RECURSIVE SumAmounts(_)
SumAmounts(rows) ==
    IF rows = {} THEN 0
    ELSE LET r == CHOOSE x \in rows : TRUE
         IN r.amount_usd + SumAmounts(rows \ {r})

\* the same with ROUND_DOWN
Quantize_RoundDown(cost) == cost \div CostDenom

\* Decimal.quantize(Decimal("0.00000001"), rounding=ROUND_HALF_EVEN) of a
\* non-negative cost given in 1/CostDenom units; the result is in ledger units.
Quantize(cost) ==
    LET whole == cost \div CostDenom
        rest  == cost % CostDenom
    IN IF 2 * rest < CostDenom THEN whole
       ELSE IF 2 * rest > CostDenom THEN whole + 1
       ELSE IF whole % 2 = 0 THEN whole ELSE whole + 1

\* balance check of record_usage: account.balance_usd < cost_dec
InsufficientBalance_NoCheck(balance_usd, cost_dec) == FALSE
InsufficientBalance(balance_usd, cost_dec) == balance_usd < cost_dec

\* amount of the USAGE ledger row: amount_usd=-cost_dec
UsageAmount_Unsigned(cost_dec) == cost_dec
UsageAmount(cost_dec) == -cost_dec

\* unique=True on Transaction.idempotency_key: an INSERT of a second row with a
\* committed key fails with IntegrityError
UniqueViolation_Off(key, rows) == FALSE
UniqueViolation(key, rows) == \E r \in rows : r.idempotency_key = key

\* select(Transaction).where(idempotency_key == key) ... scalar_one_or_none()
AlreadyProcessed_Never(key, rows) == FALSE
AlreadyProcessed(key, rows) == \E r \in rows : r.idempotency_key = key

\* value_error_handler: the HTTP status of a ValueError by its error code
ValueErrorStatus(code) == IF code # "BALANCE_EXHAUSTED" THEN 400 ELSE 402

\* rows a committed debit adds to usage_logs
UsageRows_None(id, account_id, product_id, units, cost_dec) == {}
UsageRows(id, account_id, product_id, units, cost_dec) ==
    {[id |-> id, account_id |-> account_id, product_id |-> product_id,
      units_consumed |-> units, cost_usd |-> cost_dec]}

TxRow(id, account_id, amount_usd, type, product_id, key) ==
    [id |-> id, account_id |-> account_id, amount_usd |-> amount_usd,
     type |-> type, product_id |-> product_id, idempotency_key |-> key]

\* ------------------------------------------------------------------- Init
\* nobody is logged in and no login is under way
NoMagic == [token |-> 0, expires |-> 0]

NoSessions ==
    /\ refresh_store = {}
    /\ magic = [a \in TelegramIds |-> NoMagic]
    /\ oauth_states = {}
    /\ issued_states = {}
    /\ next_token = 1
    /\ now = 0

\* the cache holds no balance, the circuit breaker is closed, no invoice is
\* pending and no account has an auto-recharge threshold
NoEntry == [hit |-> FALSE, value |-> 0]

ColdCache ==
    /\ pending_stars = {}
    /\ balance_cache = [a \in TelegramIds |-> NoEntry]
    /\ redis_cb_state = [status |-> "CLOSED", last_failure |-> 0, failure_count |-> 0]
    /\ cache_log = [ops |-> 0, failed_run |-> 0, probes |-> 0]
    /\ auto_recharge = [a \in TelegramIds |-> 0]

NoCall ==
    [op |-> "none", telegram_id |-> 0, amount |-> 0, product_id |-> "none",
     units |-> 0, idempotency_key |-> "none",
     for_update |-> FALSE, cont |-> "none",
     balance_usd |-> 0, created |-> FALSE, path |-> "none",
     result |-> 0, error |-> "none", status_code |-> 0, t0 |-> 0,
     event |-> NoEvent, signature |-> NoSignature, txn_type |-> "none",
     response |-> "none", transaction_id |-> "none",
     identifier |-> "none", progressive |-> FALSE, then_record |-> FALSE,
     daily_used |-> 0, monthly_used |-> 0, allowed |-> FALSE,
     remaining_daily |-> 0, remaining_monthly |-> 0, seq |-> 0,
     authenticated |-> FALSE, caller_key |-> FALSE, upstream |-> "none",
     code |-> "none", balance_credits |-> 0, required_credits |-> 0,
     token |-> 0, new_token |-> 0,
     usd |-> [dollars |-> 0, units |-> 0], credits |-> 0,
     usd_out |-> [dollars |-> 0, units |-> 0],
     payload |-> "none", pending_user |-> 0, notified |-> "none",
     at |-> 0, resets_at_daily |-> 0,
     attempt |-> 0, last_error |-> "none"]

\* The database as earlier top-ups left it: an account is either absent or holds
\* the balance of one committed TOPUP row (key "seed:<telegram_id>").
SeedKey(a) == IF a = 1 THEN "seed:1" ELSE "seed:2"

SeedRows(seed) ==
    {TxRow(a, a, seed[a], "topup", "none", SeedKey(a)) : a \in {x \in TelegramIds : seed[x] > 0}}

Init ==
    /\ \E seed \in [TelegramIds -> SeedBalances \cup {0}] :
         /\ accounts = [a \in TelegramIds |->
                          [exists |-> seed[a] > 0, balance_usd |-> seed[a]]]
         /\ transactions = SeedRows(seed)
    /\ usage_logs = {}
    /\ next_id = Cardinality(TelegramIds) + 1
    /\ row_lock = [a \in TelegramIds |-> {}]
    /\ pc = [p \in Procs |-> "idle"]
    /\ call = [p \in Procs |-> NoCall]
    /\ calls = 0
    /\ notifications = {}
    /\ quota = [k \in QuotaKeys |-> NoCounters]
    /\ redis_up = TRUE
    /\ upstream_calls = 0
    /\ NoSessions
    /\ ColdCache

\* ------------------------------------------------------- end of a call
\* HTTP status of an outcome: ValueError goes through value_error_handler,
\* everything else through global_exception_handler
ErrorStatus(error) ==
    IF error = "none" THEN 200
    ELSE IF error \in {"BALANCE_EXHAUSTED", "VALIDATION_ERROR", "ACCOUNT_NOT_FOUND"}
         THEN ValueErrorStatus(error)
    ELSE 500

\* handle_paddle_webhook: the answer to an outcome of process_webhook
WebhookResponse(error, has_transaction) ==
    IF error = "none" THEN (IF has_transaction THEN "processed" ELSE "ignored")
    ELSE IF error = "InvalidSignatureError" THEN "error"
    ELSE "HTTPException"

WebhookStatus(error) ==
    IF error \in {"none", "InvalidSignatureError"} THEN 200 ELSE 500

\* handle_lemonsqueezy_webhook: the answer to an outcome of process_webhook
LemonSqueezyResponse(error, has_transaction) ==
    IF error = "none" THEN (IF has_transaction THEN "processed" ELSE "ignored")
    ELSE "HTTPException"

LemonSqueezyStatus(error) ==
    IF error = "none" THEN 200
    ELSE IF error = "InvalidSignatureError" THEN 403
    ELSE 500

\* the session is closed: what it did not commit is rolled back
Release(p) == row_lock' = [a \in TelegramIds |-> row_lock[a] \ {p}]

\* the call of a task ends: its session is closed and the outcome goes to the
\* caller (for a webhook, through the except clauses of the route)
Finish(p, c) ==
    /\ pc' = [pc EXCEPT ![p] = "done"]
    /\ call' = [call EXCEPT ![p] =
         [c EXCEPT !.created = FALSE, !.for_update = FALSE, !.cont = "none",
                   !.balance_usd = 0,
                   !.status_code = IF c.op = "paddle_webhook"
                                   THEN WebhookStatus(c.error)
                                   ELSE IF c.op = "lemonsqueezy_webhook"
                                   THEN LemonSqueezyStatus(c.error)
                                   ELSE ErrorStatus(c.error),
                   !.response = IF c.op = "paddle_webhook"
                                THEN WebhookResponse(c.error, c.transaction_id # "none")
                                ELSE IF c.op = "lemonsqueezy_webhook"
                                THEN LemonSqueezyResponse(c.error, c.transaction_id # "none")
                                ELSE "none"]]

\* a ledger operation returns to the code that called it
LedgerReturn(p, c) ==
    IF c.op \in {"paddle_webhook", "lemonsqueezy_webhook", "creem_webhook",
                "stars_webhook"}
       /\ c.error = "none"
    THEN /\ pc' = [pc EXCEPT ![p] = "wh_notify"]
         /\ call' = [call EXCEPT ![p] = [c EXCEPT !.created = FALSE]]
    ELSE IF c.op = "creem_provider" /\ c.error = "none"
    THEN \* CreemProvider.process_webhook returned the transaction: the engine
         \* goes on to update_balance with the event id as key
         /\ pc' = [pc EXCEPT ![p] = "get_account"]
         /\ call' = [call EXCEPT ![p] =
              [c EXCEPT !.op = "creem_webhook", !.created = FALSE,
                        !.idempotency_key = c.event.event_id,
                        !.for_update = TRUE, !.cont = "af_commit"]]
    ELSE Finish(p, c)

\* after get_account_by_tg_id returned: the statement that called it goes on
Proceed(p, c) ==
    IF c.cont = "return_balance"
    THEN LedgerReturn(p, [c EXCEPT !.result = c.balance_usd])
    ELSE /\ pc' = [pc EXCEPT ![p] = c.cont]
         /\ call' = [call EXCEPT ![p] = c]

\* a task is free to take the next request
Free(p) == pc[p] \in {"idle", "done"} /\ calls < MaxCalls

\* ------------------------------------------- balance cache, circuit breaker
\* the cache, the breaker and the history of cache operations, taken together
\* so that the operations of one handler follow each other
CacheNow == [cache |-> balance_cache, cb |-> redis_cb_state, log |-> cache_log]

CacheBecomes(R) ==
    /\ balance_cache' = R.cache
    /\ redis_cb_state' = R.cb
    /\ cache_log' = R.log

\* _is_redis_open: the answer, and the breaker after the call (an OPEN breaker
\* whose last failure is more than the recovery time ago becomes HALF_OPEN)
CooledDown(cb) == now - cb.last_failure > RedisCbRecoveryTime

IsRedisOpen(cb) == cb.status = "OPEN" => CooledDown(cb)

AfterIsRedisOpen(R) ==
    IF R.cb.status = "OPEN" /\ CooledDown(R.cb)
    THEN [R EXCEPT !.cb.status = "HALF_OPEN", !.log.probes = 0]
    ELSE R

\* _redis_failure
RedisFailure(R) ==
    [R EXCEPT !.cb.failure_count = @ + 1,
              !.cb.last_failure = now,
              !.cb.status = IF R.cb.failure_count + 1 >= RedisCbThreshold
                            THEN "OPEN" ELSE @]

\* _redis_success
RedisSuccess(R) == [R EXCEPT !.cb.failure_count = 0, !.cb.status = "CLOSED"]

\* a command is sent to Redis: it is answered or it raises
Attempt(R, answered) ==
    [R EXCEPT !.log.ops = @ + 1,
              !.log.failed_run = IF answered THEN 0 ELSE @ + 1,
              !.log.probes = IF R.cb.status = "HALF_OPEN" THEN @ + 1 ELSE @]

\* _cache_balance: SET balance:<telegram_id>; an exception is caught and
\* handed to _redis_failure
CacheBalance(R, a, balance) ==
    IF redis_up
    THEN [Attempt(R, TRUE) EXCEPT !.cache[a] = [hit |-> TRUE, value |-> balance]]
    ELSE RedisFailure(Attempt(R, FALSE))

\* record_usage step 8: the cache write behind the breaker, then _redis_success
CacheAfterUsage(R, a, balance) ==
    IF IsRedisOpen(R.cb)
    THEN RedisSuccess(CacheBalance(AfterIsRedisOpen(R), a, balance))
    ELSE R

\* --------------------------------------------- LedgerBalanceService
\* get_account_by_tg_id, the SELECT: with for_update it waits for the row lock
\* and reads the row as last committed
LockFree_NoLock(a) == TRUE
LockFree(a) == row_lock[a] = {}

SelectAccount(p, c) ==
    LET a == c.telegram_id
    IN IF accounts[a].exists
       THEN /\ c.for_update => LockFree(a)
            /\ row_lock' = IF c.for_update
                           THEN [row_lock EXCEPT ![a] = {p}]
                           ELSE row_lock
            /\ Proceed(p, [c EXCEPT !.balance_usd = accounts[a].balance_usd])
       ELSE /\ pc' = [pc EXCEPT ![p] = "insert_account"]
            /\ call' = [call EXCEPT ![p] = c]
            /\ UNCHANGED row_lock

GetAccount(p) ==
    /\ pc[p] = "get_account"
    /\ SelectAccount(p, call[p])
    /\ UNCHANGED <<dbVars, calls, notifications, gwVars, authVars, cacheVars>>

\* get_account_by_tg_id, no row found: INSERT of the account and flush.  The
\* unique index on telegram_id makes the INSERT wait for an uncommitted INSERT
\* of the same id and fail once that id is committed.
InsertAccount(p) ==
    /\ pc[p] = "insert_account"
    /\ LET c == call[p]
           a == c.telegram_id
       IN IF accounts[a].exists
          THEN LedgerReturn(p, [c EXCEPT !.error = "IntegrityError"])
          ELSE /\ \A q \in Procs \ {p} :
                    ~(call[q].created /\ call[q].telegram_id = a)
               /\ Proceed(p, [c EXCEPT !.created = TRUE, !.balance_usd = 0])
    /\ IF accounts[call[p].telegram_id].exists
       THEN UNCHANGED <<balance_cache, redis_cb_state, cache_log>>
       ELSE \* "Cache initial balance in Redis"
            CacheBecomes(CacheBalance(CacheNow, call[p].telegram_id, 0))
    /\ UNCHANGED <<dbVars, row_lock, calls, notifications, gwVars, authVars,
                   pending_stars, auto_recharge>>

\* add_funds(telegram_id, amount, idempotency_key) is called: its first round
\* trip is the SELECT ... FOR UPDATE of the account
AddFunds(p) ==
    /\ Free(p)
    /\ \E a \in TelegramIds, amt \in Amounts, k \in Keys :
         SelectAccount(p, [NoCall EXCEPT !.op = "add_funds", !.telegram_id = a,
                                        !.amount = amt, !.idempotency_key = k,
                                        !.txn_type = "topup",
                                        !.for_update = TRUE, !.cont = "af_commit",
                                        !.t0 = next_id])
    /\ calls' = calls + 1
    /\ UNCHANGED <<dbVars, notifications, gwVars, authVars, cacheVars>>

\* type of the ledger row of a credit: add_funds writes type="topup"; a REFUND
\* of the engine is credited with type REFUND
CreditType(txn_type) == IF txn_type = "refund" THEN "refund" ELSE "topup"

\* add_funds from the Transaction row to the commit
AddFundsCommit(p) ==
    /\ pc[p] = "af_commit"
    /\ LET c == call[p]
           a == c.telegram_id
           new_balance == c.balance_usd + c.amount
       IN IF UniqueViolation(c.idempotency_key, transactions)
          THEN \* IntegrityError: rollback, ValueError("... already processed.")
               /\ LedgerReturn(p, [c EXCEPT !.error = "VALIDATION_ERROR"])
               /\ UNCHANGED <<dbVars, balance_cache, redis_cb_state, cache_log>>
          ELSE /\ accounts' = [accounts EXCEPT
                                 ![a] = [exists |-> TRUE, balance_usd |-> new_balance]]
               /\ transactions' = transactions \cup
                    {TxRow(next_id, a, c.amount, CreditType(c.txn_type), "none",
                           c.idempotency_key)}
               /\ next_id' = next_id + 1
               /\ UNCHANGED usage_logs
               /\ CacheBecomes(CacheBalance(CacheNow, a, new_balance))
               /\ LedgerReturn(p, [c EXCEPT !.result = new_balance, !.path = "committed"])
    /\ Release(p)
    /\ UNCHANGED <<calls, notifications, gwVars, authVars, pending_stars, auto_recharge>>

\* record_usage step 1: was this usage event already processed?
CheckProcessed(p, c) ==
    /\ pc' = [pc EXCEPT ![p] = "get_account"]
    /\ IF AlreadyProcessed(c.idempotency_key, transactions)
       THEN call' = [call EXCEPT ![p] =
                       [c EXCEPT !.path = "short", !.for_update = FALSE,
                                 !.cont = "return_balance"]]
       ELSE call' = [call EXCEPT ![p] =
                       [c EXCEPT !.path = "locked", !.for_update = TRUE,
                                 !.cont = "ru_commit"]]

\* record_usage(telegram_id, product_id, units, cost, idempotency_key) is
\* called: its first round trip is the SELECT of the Transaction by its key
RecordUsage(p) ==
    /\ Free(p)
    /\ \E a \in TelegramIds, cost \in Costs, k \in Keys, pr \in ProductIds :
         CheckProcessed(p, [NoCall EXCEPT !.op = "record_usage", !.telegram_id = a,
                                         !.amount = cost, !.idempotency_key = k,
                                         !.product_id = pr, !.units = 1,
                                         !.txn_type = "usage", !.t0 = next_id])
    /\ calls' = calls + 1
    /\ UNCHANGED <<dbVars, row_lock, notifications, gwVars, authVars, cacheVars>>

\* record_usage step 7: a threshold is set and the new balance is at or below it
AutoRechargeDue(a, new_balance) ==
    auto_recharge[a] # 0 /\ new_balance <= auto_recharge[a]

\* record_usage steps 3 to 8: the commit under the row lock, the audit record
\* and the cache write
RecordUsageCommit(p) ==
    /\ pc[p] = "ru_commit"
    /\ LET c == call[p]
           a == c.telegram_id
           cost_dec == Quantize(c.amount)
           new_balance == c.balance_usd - cost_dec
       IN IF InsufficientBalance(c.balance_usd, cost_dec)
          THEN \* ValueError("Insufficient balance ...", "BALANCE_EXHAUSTED")
               /\ LedgerReturn(p, [c EXCEPT !.error = "BALANCE_EXHAUSTED"])
               /\ UNCHANGED <<dbVars, balance_cache, redis_cb_state, cache_log>>
          ELSE IF UniqueViolation(c.idempotency_key, transactions)
          THEN \* IntegrityError: rollback, then read the account again
               /\ call' = [call EXCEPT ![p] =
                             [c EXCEPT !.path = "conflict", !.for_update = FALSE,
                                       !.cont = "return_balance", !.created = FALSE]]
               /\ pc' = [pc EXCEPT ![p] = "get_account"]
               /\ UNCHANGED <<dbVars, balance_cache, redis_cb_state, cache_log>>
          ELSE /\ accounts' = [accounts EXCEPT
                                 ![a] = [exists |-> TRUE, balance_usd |-> new_balance]]
               /\ usage_logs' = usage_logs \cup
                    UsageRows(next_id, a, c.product_id, c.units, cost_dec)
               /\ transactions' = transactions \cup
                    {TxRow(next_id, a, UsageAmount(cost_dec), "usage",
                           c.product_id, c.idempotency_key)}
               /\ next_id' = next_id + 1
               /\ \E audit \in AuditOutcomes :
                    /\ ~AutoRechargeDue(a, new_balance) => audit = "ok"
                    /\ IF audit = "ok"
                       THEN /\ CacheBecomes(CacheAfterUsage(CacheNow, a, new_balance))
                            /\ LedgerReturn(p, [c EXCEPT !.result = new_balance,
                                                         !.path = "committed"])
                       ELSE \* record_audit raises: only IntegrityError is caught
                            /\ UNCHANGED <<balance_cache, redis_cb_state, cache_log>>
                            /\ LedgerReturn(p, [c EXCEPT !.error = audit,
                                                         !.path = "committed"])
    /\ Release(p)
    /\ UNCHANGED <<calls, notifications, gwVars, authVars, pending_stars, auto_recharge>>

\* get_cached_balance up to its return or to the SELECT of the fallback: the
\* GET behind the breaker; a value found is returned after _redis_success
GetCachedBalance(p) ==
    /\ Free(p)
    /\ \E a \in TelegramIds :
         LET c == [NoCall EXCEPT !.op = "get_cached_balance", !.telegram_id = a,
                                 !.for_update = FALSE, !.cont = "gcb_fill",
                                 !.t0 = next_id]
             R == AfterIsRedisOpen(CacheNow)
         IN IF ~IsRedisOpen(redis_cb_state)
            THEN /\ SelectAccount(p, c)
                 /\ UNCHANGED <<balance_cache, redis_cb_state, cache_log>>
            ELSE IF ~redis_up
            THEN /\ SelectAccount(p, c)
                 /\ CacheBecomes(RedisFailure(Attempt(R, FALSE)))
            ELSE IF ~balance_cache[a].hit
            THEN /\ SelectAccount(p, c)
                 /\ CacheBecomes(Attempt(R, TRUE))
            ELSE /\ LedgerReturn(p, [c EXCEPT !.result = balance_cache[a].value,
                                              !.path = "cache"])
                 /\ CacheBecomes(RedisSuccess(Attempt(R, TRUE)))
                 /\ UNCHANGED row_lock
    /\ calls' = calls + 1
    /\ UNCHANGED <<dbVars, notifications, gwVars, authVars, pending_stars, auto_recharge>>

\* get_cached_balance after the account was read: the cache write behind the
\* breaker, and the balance of the database is returned
GetCachedFill(p) ==
    /\ pc[p] = "gcb_fill"
    /\ LET c == call[p]
       IN /\ IF IsRedisOpen(redis_cb_state)
             THEN CacheBecomes(CacheBalance(AfterIsRedisOpen(CacheNow),
                                            c.telegram_id, c.balance_usd))
             ELSE UNCHANGED <<balance_cache, redis_cb_state, cache_log>>
          /\ LedgerReturn(p, [c EXCEPT !.result = c.balance_usd, !.path = "database"])
    /\ Release(p)
    /\ UNCHANGED <<dbVars, calls, notifications, gwVars, authVars,
                   pending_stars, auto_recharge>>

\* the entry of an account expires (ex=3600)
CacheExpire ==
    /\ \E a \in TelegramIds :
         /\ balance_cache[a].hit
         /\ balance_cache' = [balance_cache EXCEPT ![a] = NoEntry]
    /\ UNCHANGED <<dbVars, row_lock, pc, call, calls, notifications, gwVars, authVars,
                   pending_stars, redis_cb_state, cache_log, auto_recharge>>

\* account 1 holds a top-up of 2 units, cached; it has an auto-recharge
\* threshold or none; the breaker is closed after no or four failures in a
\* row, or has just opened after five
InitCache ==
    /\ accounts = [a \in TelegramIds |->
                     [exists |-> a = 1, balance_usd |-> IF a = 1 THEN 2 ELSE 0]]
    /\ transactions = {TxRow(1, 1, 2, "topup", "none", SeedKey(1))}
    /\ usage_logs = {}
    /\ next_id = Cardinality(TelegramIds) + 1
    /\ row_lock = [a \in TelegramIds |-> {}]
    /\ pc = [p \in Procs |-> "idle"]
    /\ call = [p \in Procs |-> NoCall]
    /\ calls = 0
    /\ notifications = {}
    /\ quota = [k \in QuotaKeys |-> NoCounters]
    /\ redis_up = TRUE
    /\ upstream_calls = 0
    /\ NoSessions
    /\ pending_stars = {}
    /\ balance_cache = [a \in TelegramIds |->
                          IF a = 1 THEN [hit |-> TRUE, value |-> 2] ELSE NoEntry]
    /\ \E failures \in {0, RedisCbThreshold - 1, RedisCbThreshold} :
         /\ redis_cb_state =
              [status |-> IF failures >= RedisCbThreshold THEN "OPEN" ELSE "CLOSED",
               last_failure |-> 0, failure_count |-> failures]
         /\ cache_log = [ops |-> 0, failed_run |-> failures, probes |-> 0]
    /\ \E threshold \in {0, 2} :
         auto_recharge = [a \in TelegramIds |-> IF a = 1 THEN threshold ELSE 0]

\* ------------------------------------------------------- PaymentEngine
\* BalanceManager.get_balance: the balance as last committed, 0 without a row
GetBalance(user_id) ==
    IF accounts[user_id].exists THEN accounts[user_id].balance_usd ELSE 0

\* BalanceManager.check_idempotency: the ledger row with this key, if any
CheckIdempotency(key) == \E r \in transactions : r.idempotency_key = key

\* charge_usage: current_balance < amount, the amount in 1/CostDenom units
EngineInsufficient(current_balance, amount) == current_balance * CostDenom < amount

\* charge_usage(user_id, amount, product_id, details) is called: it reads the
\* balance, builds the Transaction and hands it to update_balance
ChargeUsage(p) ==
    /\ Free(p)
    /\ \E a \in TelegramIds, amt \in ChargeAmounts, pr \in ProductIds :
         LET c == [NoCall EXCEPT !.op = "charge_usage", !.telegram_id = a,
                                 !.amount = amt, !.product_id = pr,
                                 !.units = 1, !.txn_type = "usage",
                                 !.idempotency_key = UsageKeys[calls + 1],
                                 !.t0 = next_id]
         IN IF EngineInsufficient(GetBalance(a), amt)
            THEN Finish(p, [c EXCEPT !.error = "InsufficientBalanceError"])
            ELSE /\ pc' = [pc EXCEPT ![p] = "ru_check"]
                 /\ call' = [call EXCEPT ![p] =
                               [c EXCEPT !.transaction_id = "txn_usage"]]
    /\ calls' = calls + 1
    /\ UNCHANGED <<dbVars, row_lock, notifications, gwVars, authVars, cacheVars>>

\* update_balance with a USAGE Transaction: the debit of the ledger, from its
\* first round trip
UpdateBalanceUsage(p) ==
    /\ pc[p] = "ru_check"
    /\ CheckProcessed(p, call[p])
    /\ UNCHANGED <<dbVars, row_lock, calls, notifications, gwVars, authVars, cacheVars>>

\* PaddleProvider.verify_webhook
VerifyWebhook_AcceptAll(signature) == TRUE
VerifyWebhook(signature) ==
    /\ ~(signature.age > MaxWebhookAge)
    /\ signature.mac_ok

NoTransaction == [type |-> "none", user_id |-> 0, amount_usd |-> 0, id |-> "none"]

\* PaddleProvider.process_webhook: the Transaction of an event, if any
PaddleProcessWebhook(event) ==
    IF event.event_type = "transaction.completed"
    THEN IF event.user_id = 0 THEN NoTransaction
         ELSE [type |-> "topup", user_id |-> event.user_id,
               amount_usd |-> event.total * UnitsPerCent, id |-> "txn_paddle"]
    ELSE IF event.event_type = "transaction.refunded"
    THEN IF event.user_id = 0 THEN NoTransaction
         ELSE [type |-> "refund", user_id |-> event.user_id,
               amount_usd |-> -(event.total * UnitsPerCent), id |-> "txn_refund"]
    ELSE NoTransaction

\* PaymentEngine.process_webhook: has the event been processed already?
EventSeen_Never(event) == FALSE
EventSeen(event) == CheckIdempotency(event.event_id)

\* POST /api/v1/webhooks/paddle: PaymentEngine.process_webhook up to
\* update_balance, which credits through the ledger
PaddleWebhook(p) ==
    /\ Free(p)
    /\ \E e \in PaddleEvents, sig \in Signatures :
         LET c == [NoCall EXCEPT !.op = "paddle_webhook", !.event = e,
                                 !.signature = sig, !.t0 = next_id]
             txn == PaddleProcessWebhook(e)
         IN IF ~VerifyWebhook(sig)
            THEN Finish(p, [c EXCEPT !.error = "InvalidSignatureError"])
            ELSE IF EventSeen(e) \/ txn.type = "none"
            THEN Finish(p, c)
            ELSE /\ pc' = [pc EXCEPT ![p] = "get_account"]
                 /\ call' = [call EXCEPT ![p] =
                      [c EXCEPT !.telegram_id = txn.user_id,
                                !.amount = txn.amount_usd,
                                !.idempotency_key = e.event_id,
                                !.txn_type = txn.type,
                                !.transaction_id = txn.id,
                                !.for_update = TRUE, !.cont = "af_commit"]]
    /\ calls' = calls + 1
    /\ UNCHANGED <<dbVars, row_lock, notifications, gwVars, authVars, cacheVars>>

\* LemonSqueezyProvider.verify_webhook: the bare X-Signature header against
\* HMAC-SHA256(secret, raw_body)
LemonSqueezyVerify(signature) == signature.mac_ok

\* LemonSqueezyProvider.process_webhook: the Transaction of an event, if any
LemonSqueezyProcessWebhook(event) ==
    IF event.event_type = "order_created" /\ event.user_id # 0
    THEN [type |-> "topup", user_id |-> event.user_id,
          amount_usd |-> event.total * UnitsPerCent, id |-> "txn_ls"]
    ELSE NoTransaction

\* POST /api/v1/webhooks/lemonsqueezy: PaymentEngine.process_webhook up to
\* update_balance
LemonSqueezyWebhook(p) ==
    /\ Free(p)
    /\ \E e \in LemonEvents, sig \in Signatures :
         LET c == [NoCall EXCEPT !.op = "lemonsqueezy_webhook", !.event = e,
                                 !.signature = sig, !.t0 = next_id]
             txn == LemonSqueezyProcessWebhook(e)
         IN IF ~LemonSqueezyVerify(sig)
            THEN Finish(p, [c EXCEPT !.error = "InvalidSignatureError"])
            ELSE IF EventSeen(e) \/ txn.type = "none"
            THEN Finish(p, c)
            ELSE /\ pc' = [pc EXCEPT ![p] = "get_account"]
                 /\ call' = [call EXCEPT ![p] =
                      [c EXCEPT !.telegram_id = txn.user_id,
                                !.amount = txn.amount_usd,
                                !.idempotency_key = e.event_id,
                                !.txn_type = txn.type,
                                !.transaction_id = txn.id,
                                !.for_update = TRUE, !.cont = "af_commit"]]
    /\ calls' = calls + 1
    /\ UNCHANGED <<dbVars, row_lock, notifications, gwVars, authVars, cacheVars>>

\* CreemProvider.verify_webhook: HMAC-SHA256(secret, raw_body) against the
\* signature, with or without the prefix "sha256="
CreemVerify(signature) == signature.mac_ok

\* CreemProvider.process_webhook: the payment of an event, if any
CreemProcessWebhook(event) ==
    IF event.event_type \in {"checkout.completed", "payment.successful", "order.completed"}
       /\ event.user_id # 0
    THEN [type |-> "topup", user_id |-> event.user_id,
          amount_usd |-> event.total * UnitsPerCent, id |-> "creem_pay_1"]
    ELSE NoTransaction

\* PaymentEngine.process_webhook of a Creem event, up to the credit that
\* CreemProvider.process_webhook makes through its balance service
\* (source "creem:<payment_id>")
CreemWebhook(p) ==
    /\ Free(p)
    /\ \E e \in CreemEvents, sig \in Signatures, outcome \in CreditBalanceOutcomes :
         LET c == [NoCall EXCEPT !.op = "creem_provider", !.event = e,
                                 !.signature = sig, !.t0 = next_id]
             txn == CreemProcessWebhook(e)
         IN IF ~CreemVerify(sig)
            THEN Finish(p, [c EXCEPT !.error = "InvalidSignatureError"])
            ELSE IF EventSeen(e) \/ txn.type = "none"
            THEN Finish(p, c)
            ELSE IF outcome = "AttributeError"
            THEN Finish(p, [c EXCEPT !.error = "AttributeError",
                                     !.telegram_id = txn.user_id,
                                     !.amount = txn.amount_usd])
            ELSE /\ pc' = [pc EXCEPT ![p] = "get_account"]
                 /\ call' = [call EXCEPT ![p] =
                      [c EXCEPT !.telegram_id = txn.user_id,
                                !.amount = txn.amount_usd,
                                !.idempotency_key = "creem:pay_1",
                                !.txn_type = txn.type,
                                !.transaction_id = txn.id,
                                !.for_update = TRUE, !.cont = "af_commit"]]
    /\ calls' = calls + 1
    /\ UNCHANGED <<dbVars, row_lock, notifications, gwVars, authVars, cacheVars>>

\* _request_with_retry: the outcomes after which the loop goes on
Retryable_All(outcome) == outcome # "ok"
Retryable(outcome) == outcome \in {"429", "5xx", "network"}

\* _request_with_retry is called (by create_checkout, refund, ...)
PaddleRequest(p) ==
    /\ Free(p)
    /\ pc' = [pc EXCEPT ![p] = "pr_attempt"]
    /\ call' = [call EXCEPT ![p] = [NoCall EXCEPT !.op = "paddle_request",
                                                  !.t0 = next_id]]
    /\ calls' = calls + 1
    /\ UNCHANGED <<dbVars, row_lock, notifications, gwVars, authVars, cacheVars>>

\* one pass of the loop: client.request, then the sleep before the next pass,
\* the return of the data or the raise of the ProviderError
PaddleAttempt(p) ==
    /\ pc[p] = "pr_attempt"
    /\ \E outcome \in PaddleOutcomes :
         LET c == call[p]
             attempt == c.attempt
             last_error == IF outcome \in {"network", "unknown"}
                           THEN outcome ELSE c.last_error
             c1 == [c EXCEPT !.attempt = attempt + 1, !.upstream = outcome,
                             !.last_error = last_error]
         IN IF outcome = "ok"
            THEN Finish(p, c1)
            ELSE IF outcome = "4xx"
            THEN Finish(p, [c1 EXCEPT !.error = "ProviderError", !.code = "provider"])
            ELSE IF Retryable(outcome) /\ attempt < MaxRetries - 1
            THEN /\ pc' = pc
                 /\ call' = [call EXCEPT ![p] = c1]
            ELSE Finish(p, [c1 EXCEPT !.error = "ProviderError",
                                      !.code = IF last_error # "none"
                                               THEN last_error ELSE "max_retries"])
    /\ UNCHANGED <<dbVars, row_lock, calls, notifications, gwVars, authVars, cacheVars>>

\* TelegramStarsProvider.stars_to_usd, in ledger units
StarsToUsd(stars) == stars * ((100 * UnitsPerCent) \div UsdToStarsRate)

\* TelegramStarsProvider.create_checkout: the PendingInvoice is stored under
\* pending_stars:<payload>
StarsCreateCheckout(p) ==
    /\ Free(p)
    /\ \E a \in TelegramIds :
         LET c == [NoCall EXCEPT !.op = "stars_checkout", !.telegram_id = a,
                                 !.amount = InvoiceUsd,
                                 !.payload = StarsPayload(a), !.t0 = next_id]
         IN IF redis_up
            THEN /\ pending_stars' = pending_stars \cup
                      {[payload |-> StarsPayload(a), user_id |-> a, usd |-> InvoiceUsd]}
                 /\ Finish(p, c)
            ELSE /\ Finish(p, [c EXCEPT !.error = "ConnectionError"])
                 /\ UNCHANGED pending_stars
    /\ calls' = calls + 1
    /\ UNCHANGED <<dbVars, row_lock, notifications, gwVars, authVars,
                   balance_cache, redis_cb_state, cache_log, auto_recharge>>

\* the PendingInvoice stored for a payload, if any
PendingOf(payload) == {r \in pending_stars : r.payload = payload}

\* TelegramStarsProvider.process_webhook: the Transaction of a payment. A
\* payer other than the user of the PendingInvoice is logged as a warning;
\* the stored amount is used and the Transaction is made for the payer.
StarsProcessWebhook(event, payload) ==
    IF event.user_id = 0 \/ ~redis_up
    THEN NoTransaction
    ELSE [type |-> "topup", user_id |-> event.user_id,
          amount_usd |-> IF PendingOf(payload) # {}
                         THEN (CHOOSE r \in PendingOf(payload) : TRUE).usd
                         ELSE StarsToUsd(event.total),
          id |-> "txn_stars"]

\* PaymentEngine.process_webhook of a successful_payment, up to
\* update_balance: verify_webhook accepts every event
StarsWebhook(p) ==
    /\ Free(p)
    /\ \E e \in StarsEvents, a \in TelegramIds :
         LET payload == StarsPayload(a)
             found == PendingOf(payload)
             c == [NoCall EXCEPT !.op = "stars_webhook", !.event = e,
                                 !.payload = payload,
                                 !.pending_user =
                                     IF found = {} THEN 0
                                     ELSE (CHOOSE r \in found : TRUE).user_id,
                                 !.t0 = next_id]
             txn == StarsProcessWebhook(e, payload)
         IN IF EventSeen(e)
            THEN Finish(p, c) /\ UNCHANGED pending_stars
            ELSE IF txn.type = "none"
            THEN Finish(p, c) /\ UNCHANGED pending_stars
            ELSE /\ pending_stars' = pending_stars \ found
                 /\ pc' = [pc EXCEPT ![p] = "get_account"]
                 /\ call' = [call EXCEPT ![p] =
                      [c EXCEPT !.telegram_id = txn.user_id,
                                !.amount = txn.amount_usd,
                                !.idempotency_key = e.event_id,
                                !.txn_type = txn.type,
                                !.transaction_id = txn.id,
                                !.for_update = TRUE, !.cont = "af_commit"]]
    /\ calls' = calls + 1
    /\ UNCHANGED <<dbVars, row_lock, notifications, gwVars, authVars,
                   balance_cache, redis_cb_state, cache_log, auto_recharge>>

\* PaymentEngine.process_webhook after update_balance: the notifications
Notify(txn_type, user_id, new_balance) ==
    (IF txn_type = "topup"
     THEN {[user_id |-> user_id, kind |-> "payment_success"]} ELSE {})
    \cup
    (IF new_balance < LowBalanceThreshold
     THEN {[user_id |-> user_id, kind |-> "low_balance"]} ELSE {})

\* what becomes of the delivery of a notification to the user
DeliveryOutcomes == {"sent", "failed"}

\* TelegramNotificationService: a delivery that fails is logged and the
\* method returns
NotifyRaises_OnFailure(outcome) == outcome = "failed"
NotifyRaises(outcome) == FALSE

\* the awaits of the notifications and the return of the transaction; an
\* exception of a notification method would leave process_webhook
NotifyAndReturn(p, Raises(_)) ==
    /\ pc[p] = "wh_notify"
    /\ LET c == call[p]
           dispatched == Notify(c.txn_type, c.telegram_id, c.result)
       IN IF dispatched = {}
          THEN Finish(p, c) /\ UNCHANGED notifications
          ELSE \E outcome \in DeliveryOutcomes :
                 IF Raises(outcome)
                 THEN /\ Finish(p, [c EXCEPT !.error = "NotificationError",
                                             !.notified = outcome])
                      /\ UNCHANGED notifications
                 ELSE /\ notifications' = notifications \cup dispatched
                      /\ Finish(p, [c EXCEPT !.notified = outcome])
    /\ UNCHANGED <<dbVars, row_lock, calls, gwVars, authVars, cacheVars>>

WebhookNotify_Propagating(p) == NotifyAndReturn(p, NotifyRaises_OnFailure)
WebhookNotify(p) == NotifyAndReturn(p, NotifyRaises)

\* ------------------------------------------------------- FreeTierService
\* FREE_TIER_LIMITS and the default of _get_limits
FreeTierLimits(product_id) ==
    CASE product_id = "chart2csv" -> [daily |-> 3, monthly |-> 50]
      [] product_id = "masker"    -> [daily |-> 100, monthly |-> 2000]
      [] product_id = "patas"     -> [daily |-> 100, monthly |-> 10000]
      [] product_id = "reliapi"   -> [daily |-> 1000, monthly |-> 10000]
      [] OTHER                    -> [daily |-> 10, monthly |-> 100]

Max(x, y) == IF x >= y THEN x ELSE y

\* _get_limits: half of the limits, at least 1, in the progressive period
GetLimits(product_id, progressive) ==
    LET base == FreeTierLimits(product_id)
    IN IF progressive
       THEN [daily |-> Max(1, base.daily \div 2), monthly |-> Max(1, base.monthly \div 2)]
       ELSE base

\* check_limit, the result computed from the two values read
Remaining_Unclamped(limit, used) == limit - used
Remaining(limit, used) == Max(0, limit - used)

Allowed_DailyOnly(limits, daily_used, monthly_used, units) ==
    daily_used + units <= limits.daily
Allowed_MonthlyOnly(limits, daily_used, monthly_used, units) ==
    monthly_used + units <= limits.monthly
Allowed(limits, daily_used, monthly_used, units) ==
    /\ daily_used + units <= limits.daily
    /\ monthly_used + units <= limits.monthly

\* a Redis command of a task: it fails when the store does not answer
RedisError(p, c) ==
    /\ pc' = [pc EXCEPT ![p] = "done"]
    /\ call' = [call EXCEPT ![p] = [c EXCEPT !.error = "ConnectionError",
                                             !.status_code = 500]]

\* check_limit, first GET: the daily counter
CheckLimitDaily(p, c) ==
    IF ~redis_up
    THEN RedisError(p, c)
    ELSE /\ pc' = [pc EXCEPT ![p] = "cl_monthly"]
         /\ call' = [call EXCEPT ![p] =
              [c EXCEPT !.daily_used = quota[<<c.product_id, c.identifier>>].daily]]

FreeTierCheckLimit(p) ==
    /\ Free(p)
    /\ \E product_id \in CheckedProducts, identifier \in Identifiers,
          units \in QuotaUnits, progressive \in BOOLEAN :
         CheckLimitDaily(p, [NoCall EXCEPT !.op = "check_limit",
                                          !.product_id = product_id,
                                          !.identifier = identifier, !.units = units,
                                          !.progressive = progressive,
                                          !.seq = calls + 1])
    /\ calls' = calls + 1
    /\ UNCHANGED <<dbVars, row_lock, notifications, gwVars, authVars, cacheVars>>

\* the use the class documents: check_limit for one unit and, when it allows,
\* record_usage
FreePair(p) == pc[p] \in {"idle", "done"} /\ calls < MaxQuotaCalls

FreeTierCheckThenRecord(p) ==
    /\ FreePair(p)
    /\ \E product_id \in CheckedProducts, identifier \in Identifiers :
         CheckLimitDaily(p, [NoCall EXCEPT !.op = "check_limit",
                                          !.product_id = product_id,
                                          !.identifier = identifier, !.units = 1,
                                          !.then_record = TRUE,
                                          !.seq = calls + 1])
    /\ calls' = calls + 1
    /\ UNCHANGED <<dbVars, row_lock, notifications, gwVars, authVars, cacheVars>>

\* _daily_reset_time: date.today() followed by "T00:00:00Z", as minutes since
\* the epoch (the server's clock is UTC)
MinutesPerDay == 24 * 60
DailyResetTime(t) == (t \div MinutesPerDay) * MinutesPerDay

\* check_limit, second GET: the monthly counter, and the result
CheckLimitResult(p, c) ==
    LET limits == GetLimits(c.product_id, c.progressive)
        monthly_used == quota[<<c.product_id, c.identifier>>].monthly
        allowed == Allowed(limits, c.daily_used, monthly_used, c.units)
        r == [c EXCEPT !.monthly_used = monthly_used,
                       !.allowed = allowed,
                       !.remaining_daily = Remaining(limits.daily, c.daily_used),
                       !.remaining_monthly = Remaining(limits.monthly, monthly_used),
                       !.at = now,
                       !.resets_at_daily = DailyResetTime(now)]
    IN IF ~redis_up
       THEN RedisError(p, c)
       ELSE IF r.op = "check_limit"
       THEN /\ pc' = [pc EXCEPT ![p] = IF r.then_record /\ allowed
                                       THEN "ft_record" ELSE "done"]
            /\ call' = [call EXCEPT ![p] = [r EXCEPT !.status_code =
                                              IF r.then_record /\ allowed THEN 0 ELSE 200]]
       ELSE IF allowed
       THEN /\ pc' = [pc EXCEPT ![p] = "dispatch"]
            /\ call' = [call EXCEPT ![p] = r]
       ELSE \* HTTPException 429
            /\ pc' = [pc EXCEPT ![p] = "done"]
            /\ call' = [call EXCEPT ![p] = [r EXCEPT !.status_code = 429,
                                                     !.code = "FREE_LIMIT_EXCEEDED"]]

FreeTierCheckLimitMonthly(p) ==
    /\ pc[p] = "cl_monthly"
    /\ CheckLimitResult(p, call[p])
    /\ UNCHANGED <<dbVars, row_lock, calls, notifications, gwVars, authVars, cacheVars>>

\* record_usage: INCRBY of both counters and EXPIRE of both keys, queued in one
\* pipeline and executed as one MULTI/EXEC transaction
Pipeline_DailyOnly(k, units) ==
    [quota EXCEPT ![k] = [@ EXCEPT !.daily = @ + units, !.daily_ttl = DailyTtl]]
Pipeline(k, units) ==
    [quota EXCEPT ![k] = [daily |-> @.daily + units,
                          monthly |-> @.monthly + units,
                          daily_ttl |-> DailyTtl,
                          monthly_ttl |-> MonthlyTtl]]

RecordQuota(p, c) ==
    IF ~redis_up
    THEN RedisError(p, c) /\ UNCHANGED quota
    ELSE /\ quota' = Pipeline(<<c.product_id, c.identifier>>, c.units)
         /\ IF c.op \in GatedEndpoints
            THEN /\ pc' = [pc EXCEPT ![p] = "ft_remaining"]
                 /\ call' = [call EXCEPT ![p] = c]
            ELSE /\ pc' = [pc EXCEPT ![p] = "done"]
                 /\ call' = [call EXCEPT ![p] = [c EXCEPT !.status_code = 200]]

\* record_usage called after an allowed check_limit, as the class documents
FreeTierRecordAfterCheck(p) ==
    /\ pc[p] = "ft_record"
    /\ RecordQuota(p, call[p])
    /\ UNCHANGED <<dbVars, row_lock, calls, notifications, redis_up, upstream_calls, authVars, cacheVars>>

\* record_usage called on its own
FreeTierRecordUsage(p) ==
    /\ Free(p)
    /\ \E product_id \in CheckedProducts, identifier \in Identifiers,
          units \in QuotaUnits \ {0} :
         RecordQuota(p, [NoCall EXCEPT !.op = "quota_record_usage",
                                       !.product_id = product_id,
                                       !.identifier = identifier, !.units = units,
                                       !.seq = calls + 1])
    /\ calls' = calls + 1
    /\ UNCHANGED <<dbVars, row_lock, notifications, redis_up, upstream_calls, authVars, cacheVars>>

\* the store stops and resumes answering
StoreDown ==
    /\ redis_up
    /\ redis_up' = FALSE
    /\ UNCHANGED <<dbVars, row_lock, pc, call, calls, notifications, quota, upstream_calls, authVars, cacheVars>>

StoreUp ==
    /\ ~redis_up
    /\ redis_up' = TRUE
    /\ UNCHANGED <<dbVars, row_lock, pc, call, calls, notifications, quota, upstream_calls, authVars, cacheVars>>

\* the counters as earlier days of the month left them: no daily key yet
InitQuota ==
    /\ accounts = [a \in TelegramIds |-> [exists |-> FALSE, balance_usd |-> 0]]
    /\ transactions = {}
    /\ usage_logs = {}
    /\ next_id = Cardinality(TelegramIds) + 1
    /\ row_lock = [a \in TelegramIds |-> {}]
    /\ pc = [p \in Procs |-> "idle"]
    /\ call = [p \in Procs |-> NoCall]
    /\ calls = 0
    /\ notifications = {}
    /\ \E used \in UsedMonths :
         quota = [k \in QuotaKeys |->
                    IF k[1] \in CheckedProducts /\ used > 0
                    THEN [daily |-> 0, monthly |-> used, daily_ttl |-> 0,
                          monthly_ttl |-> MonthlyTtl]
                    ELSE NoCounters]
    /\ redis_up = TRUE
    /\ upstream_calls = 0
    /\ NoSessions
    /\ ColdCache

\* ------------------------------------------------- metered endpoints
\* credits_service.usd_to_credits: round half even of usd * CREDITS_PER_USD
\* (the ValueError of a negative amount is raised by the caller's branch)
RoundHalfEven_Up(n, d) ==
    LET q == n \div d
        r == n % d
    IN IF 2 * r < d THEN q ELSE q + 1
RoundHalfEven(n, d) ==
    LET q == n \div d
        r == n % d
    IN IF 2 * r < d THEN q
       ELSE IF 2 * r > d THEN q + 1
       ELSE IF q % 2 = 0 THEN q ELSE q + 1

UsdToCredits(usd) == RoundHalfEven(usd, UnitsPerCredit)

\* COST_PER_EXTRACTION, COST_PER_REQUEST, COST_PER_MESSAGE and the price of a
\* reliapi request, in ledger units per unit
Price(product_id) ==
    CASE product_id = "chart2csv" -> 5000000
      [] product_id = "masker"    -> 100000
      [] product_id = "patas"     -> 5000
      [] product_id = "reliapi"   -> 10000

\* required_credits of the 402 answer, in thousandths of a credit
RequiredCredits(product_id, units) ==
    CASE product_id = "chart2csv" -> 50 * 1000
      [] product_id = "masker"    -> 1 * 1000
      [] product_id = "patas"     -> (units * 5 * 1000) \div 100

ProductOf(op) == IF op \in ProxyEndpoints THEN "reliapi" ELSE op
UnitsOf(op) == IF op = "patas" THEN MessageCount ELSE 1

\* the answer of a request that ends before metering
Respond(p, c, status_code, code) ==
    /\ pc' = [pc EXCEPT ![p] = "done"]
    /\ call' = [call EXCEPT ![p] = [c EXCEPT !.status_code = status_code,
                                             !.code = code]]

\* the balance check of an authenticated request
BelowPrice_Never(balance_usd, cost) == FALSE
BelowPrice(balance_usd, cost) == balance_usd < cost

Admission(p, c) ==
    LET cost == Price(c.product_id) * c.units
    IN IF BelowPrice(c.balance_usd, cost)
       THEN IF c.balance_usd < 0
            THEN \* usd_to_credits raises ValueError: value_error_handler
                 Respond(p, [c EXCEPT !.error = "VALIDATION_ERROR"],
                         ValueErrorStatus("VALIDATION_ERROR"), "VALIDATION_ERROR")
            ELSE Respond(p, [c EXCEPT !.balance_credits = UsdToCredits(c.balance_usd),
                                      !.required_credits =
                                          RequiredCredits(c.product_id, c.units)],
                         402, "INSUFFICIENT_CREDITS")
       ELSE /\ pc' = [pc EXCEPT ![p] = "dispatch"]
            /\ call' = [call EXCEPT ![p] = c]

\* POST chart2csv/extract, masker/redact, patas/analyze: the caller is
\* identified (verify_key reads the account of a valid API key; without a key
\* the caller is the client address) and admitted
GatedRequest(p) ==
    /\ Free(p)
    /\ \E op \in GatedEndpoints :
         LET c == [NoCall EXCEPT !.op = op, !.product_id = ProductOf(op),
                                 !.units = UnitsOf(op), !.t0 = next_id]
         IN \/ \E a \in GatewayAccounts :
                 /\ accounts[a].exists
                 /\ Admission(p, [c EXCEPT !.authenticated = TRUE,
                                           !.telegram_id = a,
                                           !.idempotency_key = UsageKeys[calls + 1],
                                           !.balance_usd = accounts[a].balance_usd])
            \/ \E identifier \in Identifiers :
                 CheckLimitDaily(p, [c EXCEPT !.identifier = identifier])
    /\ calls' = calls + 1
    /\ UNCHANGED <<dbVars, row_lock, notifications, gwVars, authVars, cacheVars>>

\* POST proxy/llm, proxy/http: require_scope identifies the account; the
\* handler goes straight to the upstream call
ProxyRequest(p) ==
    /\ Free(p)
    /\ \E op \in ProxyEndpoints, a \in GatewayAccounts, supplied \in BOOLEAN :
         /\ accounts[a].exists
         /\ pc' = [pc EXCEPT ![p] = "dispatch"]
         /\ call' = [call EXCEPT ![p] =
              [NoCall EXCEPT !.op = op, !.product_id = ProductOf(op),
                             !.units = UnitsOf(op), !.t0 = next_id,
                             !.authenticated = TRUE,
                             !.telegram_id = a, !.caller_key = supplied,
                             !.idempotency_key = IF supplied THEN "k1"
                                                 ELSE UsageKeys[calls + 1],
                             !.balance_usd = accounts[a].balance_usd]]
    /\ calls' = calls + 1
    /\ UNCHANGED <<dbVars, row_lock, notifications, gwVars, authVars, cacheVars>>

\* the HTTP status a failed upstream call is answered with
UpstreamFailureStatus(op, outcome) ==
    IF op \in ProxyEndpoints THEN 500
    ELSE IF outcome = "network" THEN 503
    ELSE 502

\* what follows a successful upstream call
Metering_Always(outcome) == "meter"
Metering(outcome) == IF outcome = "ok" THEN "meter" ELSE "fail"

\* the upstream call and what follows it at once: the answer of a failure, or
\* the first round trip of the metering (patas analyses in the handler itself)
Dispatch(p) ==
    /\ pc[p] = "dispatch"
    /\ \E outcome \in UpstreamOutcomes :
         LET c == [call[p] EXCEPT !.upstream = outcome]
         IN /\ call[p].op = "patas" => outcome = "ok"
            /\ IF Metering(outcome) = "fail"
               THEN Respond(p, [c EXCEPT !.error = "UpstreamError"],
                            UpstreamFailureStatus(c.op, outcome), "none")
               ELSE IF c.authenticated
               THEN /\ pc' = [pc EXCEPT ![p] = "track_usage"]
                    /\ call' = [call EXCEPT ![p] = c]
               ELSE /\ pc' = [pc EXCEPT ![p] = "ft_record"]
                    /\ call' = [call EXCEPT ![p] = c]
    /\ upstream_calls' = upstream_calls + 1
    /\ UNCHANGED <<dbVars, row_lock, calls, notifications, quota, redis_up, authVars, cacheVars>>

\* UsageTracker.track_usage: the debit of price x units through the ledger's
\* record_usage, under the idempotency key of the request
TrackUsage(p) ==
    /\ pc[p] = "track_usage"
    /\ CheckProcessed(p, [call[p] EXCEPT
                             !.amount = Price(call[p].product_id) * call[p].units
                                        * CostDenom,
                             !.txn_type = "usage"])
    /\ UNCHANGED <<dbVars, row_lock, calls, notifications, gwVars, authVars, cacheVars>>

\* get_remaining for the free_tier object of the answer: check_limit with 0 units
FreeTierRemaining(p) ==
    /\ pc[p] = "ft_remaining"
    /\ IF ~redis_up
       THEN RedisError(p, call[p])
       ELSE Respond(p, call[p], 200, "none")
    /\ UNCHANGED <<dbVars, row_lock, calls, notifications, gwVars, authVars, cacheVars>>

\* the account and the counters when the requests arrive
GatewaySeedRows(b) ==
    IF b > 0 THEN {TxRow(1, 1, b, "topup", "none", SeedKey(1))}
    ELSE IF b < 0
    THEN {TxRow(1, 1, 1000000, "topup", "none", SeedKey(1)),
          TxRow(2, 1, -1000000 - b, "usage", "masker", "seed:usage"),
          TxRow(3, 1, -1000000, "refund", "none", "seed:refund")}
    ELSE {}

InitGateway ==
    /\ \E b \in GatewaySeeds :
         /\ accounts = [a \in TelegramIds |->
                          [exists |-> a \in GatewayAccounts,
                           balance_usd |-> IF a \in GatewayAccounts THEN b ELSE 0]]
         /\ transactions = GatewaySeedRows(b)
         /\ usage_logs = IF b < 0
                         THEN UsageRows(2, 1, "masker", 1, -1000000 - b)
                         ELSE {}
    /\ next_id = 4
    /\ row_lock = [a \in TelegramIds |-> {}]
    /\ pc = [p \in Procs |-> "idle"]
    /\ call = [p \in Procs |-> NoCall]
    /\ calls = 0
    /\ notifications = {}
    /\ quota = [k \in QuotaKeys |-> NoCounters]
    /\ redis_up = TRUE
    /\ upstream_calls = 0
    /\ NoSessions
    /\ ColdCache

\* ------------------------------------------------------------------ auth
\* hash_refresh_token: SHA-256 of the token, which does not collide
Sha256(token) == <<"sha256", token>>

\* the tokens a client can present: those handed out so far, and one never issued
KnownTokens == 0..(next_token - 1)

\* _get_refresh_token: the entry stored under a hash, if any
RefreshEntries(token_hash) == {e \in refresh_store : e.hash = token_hash}

\* _delete_refresh_token
DeleteRefreshToken_Keep(store, token_hash) == store
DeleteRefreshToken(store, token_hash) == {e \in store : e.hash # token_hash}

\* _store_refresh_token
StoreRefreshToken(store, token_hash, account_id) ==
    DeleteRefreshToken(store, token_hash)
        \cup {[hash |-> token_hash, account_id |-> account_id]}

\* POST /auth/refresh up to the SELECT of the account
RefreshAccessToken(p) ==
    /\ Free(p)
    /\ \E token \in KnownTokens :
         LET c == [NoCall EXCEPT !.op = "refresh", !.token = token, !.seq = calls + 1]
             token_data == RefreshEntries(Sha256(token))
         IN IF token_data = {}
            THEN Respond(p, c, 401, "none")
            ELSE \E e \in token_data :
                   /\ pc' = [pc EXCEPT ![p] = "rf_account"]
                   /\ call' = [call EXCEPT ![p] = [c EXCEPT !.telegram_id = e.account_id]]
    /\ calls' = calls + 1
    /\ UNCHANGED <<dbVars, row_lock, notifications, gwVars, authVars, cacheVars>>

\* POST /auth/refresh after get_account_by_id: the old entry is deleted, a new
\* pair is created and its refresh token stored
RefreshRotate(p) ==
    /\ pc[p] = "rf_account"
    /\ LET c == call[p]
           h == Sha256(c.token)
       IN IF ~accounts[c.telegram_id].exists
          THEN /\ refresh_store' = DeleteRefreshToken(refresh_store, h)
               /\ Respond(p, c, 401, "none")
               /\ UNCHANGED next_token
          ELSE /\ refresh_store' =
                    StoreRefreshToken(DeleteRefreshToken(refresh_store, h),
                                      Sha256(next_token), c.telegram_id)
               /\ next_token' = next_token + 1
               /\ Respond(p, [c EXCEPT !.new_token = next_token], 200, "none")
    /\ UNCHANGED <<cacheVars, dbVars, row_lock, calls, notifications, gwVars,
                   magic, oauth_states, issued_states, now>>

\* POST /auth/logout
Logout(p) ==
    /\ Free(p)
    /\ \E token \in KnownTokens :
         /\ refresh_store' = DeleteRefreshToken(refresh_store, Sha256(token))
         /\ Respond(p, [NoCall EXCEPT !.op = "logout", !.token = token,
                                      !.seq = calls + 1], 200, "none")
    /\ calls' = calls + 1
    /\ UNCHANGED <<cacheVars, dbVars, row_lock, notifications, gwVars,
                   magic, oauth_states, issued_states, next_token, now>>

\* the TTL of an entry (REFRESH_TOKEN_TTL) runs out
RefreshExpire ==
    /\ \E e \in refresh_store : refresh_store' = refresh_store \ {e}
    /\ UNCHANGED <<cacheVars, dbVars, row_lock, pc, call, calls, notifications, gwVars,
                   magic, oauth_states, issued_states, next_token, now>>

\* an account is logged in: the client holds refresh token 1
InitRefresh ==
    /\ accounts = [a \in TelegramIds |-> [exists |-> a = 1, balance_usd |-> 0]]
    /\ transactions = {}
    /\ usage_logs = {}
    /\ next_id = Cardinality(TelegramIds) + 1
    /\ row_lock = [a \in TelegramIds |-> {}]
    /\ pc = [p \in Procs |-> "idle"]
    /\ call = [p \in Procs |-> NoCall]
    /\ calls = 0
    /\ notifications = {}
    /\ quota = [k \in QuotaKeys |-> NoCounters]
    /\ redis_up = TRUE
    /\ upstream_calls = 0
    /\ refresh_store = {[hash |-> Sha256(1), account_id |-> 1]}
    /\ magic = [a \in TelegramIds |-> NoMagic]
    /\ oauth_states = {}
    /\ issued_states = {}
    /\ next_token = 2
    /\ now = 0
    /\ ColdCache

\* time passes
Tick ==
    /\ now + TickMinutes <= MaxTime
    /\ now' = now + TickMinutes
    /\ UNCHANGED <<cacheVars, dbVars, row_lock, pc, call, calls, notifications, gwVars,
                   refresh_store, magic, oauth_states, issued_states, next_token>>

\* POST /auth/magic-link for the e-mail of an account: set_magic_link_token
\* stores a fresh token and its expiry on the account and commits
RequestMagicLink(p) ==
    /\ Free(p)
    /\ \E a \in {x \in TelegramIds : accounts[x].exists} :
         /\ magic' = [magic EXCEPT ![a] =
                        [token |-> next_token,
                         expires |-> now + MagicLinkExpiryMinutes]]
         /\ Respond(p, [NoCall EXCEPT !.op = "magic_link", !.telegram_id = a,
                                      !.new_token = next_token,
                                      !.seq = calls + 1], 200, "none")
    /\ next_token' = next_token + 1
    /\ calls' = calls + 1
    /\ UNCHANGED <<cacheVars, dbVars, row_lock, notifications, gwVars,
                   refresh_store, oauth_states, issued_states, now>>

\* verify_magic_link_token, the SELECT: the account that holds the token with
\* an expiry still ahead
TokenHolders(token) ==
    {a \in TelegramIds : /\ accounts[a].exists
                         /\ magic[a].token = token /\ token # 0
                         /\ magic[a].expires > now}

\* POST /auth/verify up to the SELECT
VerifyMagicLink(p) ==
    /\ Free(p)
    /\ \E token \in KnownTokens :
         LET c == [NoCall EXCEPT !.op = "verify", !.token = token, !.seq = calls + 1]
         IN IF TokenHolders(token) = {}
            THEN \* HTTPException 400 "Invalid or expired magic link"
                 Respond(p, c, 400, "none")
            ELSE \E a \in TokenHolders(token) :
                   /\ pc' = [pc EXCEPT ![p] = "ml_commit"]
                   /\ call' = [call EXCEPT ![p] = [c EXCEPT !.telegram_id = a]]
    /\ calls' = calls + 1
    /\ UNCHANGED <<dbVars, row_lock, notifications, gwVars, authVars, cacheVars>>

\* POST /auth/verify from the commit on: the token and its expiry are set to
\* NULL on the row read before, then the pair is created and its refresh
\* token stored
VerifyCommit(p) ==
    /\ pc[p] = "ml_commit"
    /\ LET c == call[p]
       IN /\ magic' = [magic EXCEPT ![c.telegram_id] = NoMagic]
          /\ refresh_store' = StoreRefreshToken(refresh_store, Sha256(next_token),
                                                c.telegram_id)
          /\ next_token' = next_token + 1
          /\ Respond(p, [c EXCEPT !.new_token = next_token], 200, "none")
    /\ UNCHANGED <<cacheVars, dbVars, row_lock, calls, notifications, gwVars,
                   oauth_states, issued_states, now>>

\* a magic link was sent: account 1 holds token 1, valid for 15 minutes
InitMagic ==
    /\ accounts = [a \in TelegramIds |-> [exists |-> a = 1, balance_usd |-> 0]]
    /\ transactions = {}
    /\ usage_logs = {}
    /\ next_id = Cardinality(TelegramIds) + 1
    /\ row_lock = [a \in TelegramIds |-> {}]
    /\ pc = [p \in Procs |-> "idle"]
    /\ call = [p \in Procs |-> NoCall]
    /\ calls = 0
    /\ notifications = {}
    /\ quota = [k \in QuotaKeys |-> NoCounters]
    /\ redis_up = TRUE
    /\ upstream_calls = 0
    /\ refresh_store = {}
    /\ magic = [a \in TelegramIds |->
                  IF a = 1 THEN [token |-> 1, expires |-> MagicLinkExpiryMinutes]
                  ELSE NoMagic]
    /\ oauth_states = {}
    /\ issued_states = {}
    /\ next_token = 2
    /\ now = 0
    /\ ColdCache

\* ----------------------------------------------------- Google OAuth state
\* _oauth_states maps a state to the time it was stored; issued_states keeps
\* every state init ever minted, with the time and whether a callback took it
StoredStates == {e.state : e \in oauth_states}

\* GET /auth/google/init: mint a state, store it, "clean old states", redirect
CleanOldStates(states, state) == {[state |-> state, at |-> now]}

GoogleInit(p) ==
    /\ Free(p)
    /\ LET state == next_token
       IN /\ oauth_states' = CleanOldStates(oauth_states \cup {[state |-> state, at |-> now]},
                                            state)
          /\ issued_states' = issued_states \cup
                                 {[state |-> state, at |-> now, used |-> FALSE]}
          /\ Respond(p, [NoCall EXCEPT !.op = "google_init", !.new_token = state,
                                       !.seq = calls + 1], 302, "google")
    /\ next_token' = next_token + 1
    /\ calls' = calls + 1
    /\ UNCHANGED <<cacheVars, dbVars, row_lock, notifications, gwVars,
                   refresh_store, magic, now>>

\* GET /auth/google/callback up to the token exchange: the state is looked up
\* and deleted
GoogleCallback(p) ==
    /\ Free(p)
    /\ \E state \in KnownTokens :
         LET c == [NoCall EXCEPT !.op = "google_callback", !.token = state,
                                 !.seq = calls + 1]
         IN IF state \notin StoredStates
            THEN /\ Respond(p, c, 302, "invalid_state")
                 /\ UNCHANGED <<oauth_states, issued_states>>
            ELSE /\ oauth_states' = {e \in oauth_states : e.state # state}
                 /\ issued_states' =
                      {IF e.state = state THEN [e EXCEPT !.used = TRUE] ELSE e :
                         e \in issued_states}
                 /\ pc' = [pc EXCEPT ![p] = "oa_exchange"]
                 /\ call' = [call EXCEPT ![p] = [c EXCEPT !.allowed = TRUE]]
    /\ calls' = calls + 1
    /\ UNCHANGED <<cacheVars, dbVars, row_lock, notifications, gwVars,
                   refresh_store, magic, next_token, now>>

\* GET /auth/google/callback from the token exchange on: Google refuses, or
\* the account of the Google identity (account 1) gets a token pair
GoogleExchange(p) ==
    /\ pc[p] = "oa_exchange"
    /\ \E upstream \in UpstreamOutcomes :
         LET c == [call[p] EXCEPT !.upstream = upstream]
         IN IF upstream # "ok"
            THEN /\ Respond(p, c, 302, IF upstream = "network" THEN "network_error"
                                       ELSE "token_exchange_failed")
                 /\ UNCHANGED <<refresh_store, next_token>>
            ELSE /\ refresh_store' = StoreRefreshToken(refresh_store,
                                                       Sha256(next_token), 1)
                 /\ next_token' = next_token + 1
                 /\ Respond(p, [c EXCEPT !.telegram_id = 1,
                                         !.new_token = next_token], 302, "callback")
    /\ UNCHANGED <<cacheVars, dbVars, row_lock, calls, notifications, gwVars,
                   magic, oauth_states, issued_states, now>>

\* one init has been answered: state 1 is stored
InitOAuth ==
    /\ accounts = [a \in TelegramIds |-> [exists |-> a = 1, balance_usd |-> 0]]
    /\ transactions = {}
    /\ usage_logs = {}
    /\ next_id = Cardinality(TelegramIds) + 1
    /\ row_lock = [a \in TelegramIds |-> {}]
    /\ pc = [p \in Procs |-> "idle"]
    /\ call = [p \in Procs |-> NoCall]
    /\ calls = 0
    /\ notifications = {}
    /\ quota = [k \in QuotaKeys |-> NoCounters]
    /\ redis_up = TRUE
    /\ upstream_calls = 0
    /\ refresh_store = {}
    /\ magic = [a \in TelegramIds |-> NoMagic]
    /\ oauth_states = {[state |-> 1, at |-> 0]}
    /\ issued_states = {[state |-> 1, at |-> 0, used |-> FALSE]}
    /\ next_token = 2
    /\ now = 0
    /\ ColdCache

\* ------------------------------------------------------- Telegram login
\* POST /auth/telegram with valid widget data, up to the SELECT of
\* get_or_create_account_by_telegram
LoginWithTelegram(p) ==
    /\ Free(p)
    /\ \E a \in TelegramIds :
         /\ pc' = [pc EXCEPT ![p] = "tg_commit"]
         /\ call' = [call EXCEPT ![p] =
                       [NoCall EXCEPT !.op = "telegram_login", !.telegram_id = a,
                                      !.seq = calls + 1,
                                      !.path = IF accounts[a].exists THEN "found"
                                               ELSE "new"]]
    /\ calls' = calls + 1
    /\ UNCHANGED <<dbVars, row_lock, notifications, gwVars, authVars, cacheVars>>

\* the unique index on accounts.telegram_id
TelegramIdTaken(a) == accounts[a].exists

\* get_or_create_account_by_telegram from its commit on: last_active_at of
\* the row found, or the INSERT of a new Account; then the token pair
LoginCommit(p) ==
    /\ pc[p] = "tg_commit"
    /\ LET c == call[p]
           a == c.telegram_id
       IN IF c.path = "new" /\ TelegramIdTaken(a)
          THEN \* IntegrityError out of db.commit(), caught by nothing
               /\ Respond(p, [c EXCEPT !.error = "IntegrityError"],
                          ErrorStatus("IntegrityError"), "INTERNAL_ERROR")
               /\ UNCHANGED <<accounts, refresh_store, next_token>>
          ELSE /\ accounts' = IF c.path = "new"
                              THEN [accounts EXCEPT ![a] =
                                      [exists |-> TRUE, balance_usd |-> 0]]
                              ELSE accounts
               /\ refresh_store' = StoreRefreshToken(refresh_store,
                                                     Sha256(next_token), a)
               /\ next_token' = next_token + 1
               /\ Respond(p, [c EXCEPT !.new_token = next_token], 200, "none")
    /\ UNCHANGED <<cacheVars, transactions, usage_logs, next_id, row_lock, calls,
                   notifications, gwVars, magic, oauth_states, issued_states, now>>

\* ------------------------------------------------------- credits_service
\* usd_to_credits: ValueError below zero, else usd * 1000 quantized to an
\* integer with ROUND_HALF_EVEN (usd.dollars * 1000 is an even integer, so
\* the rounding of the sum is the rounding of the rest)
usd_to_credits(usd) ==
    IF usd.dollars < 0
    THEN [error |-> "ValueError", credits |-> 0]
    ELSE [error |-> "none",
          credits |-> usd.dollars * CreditsPerUsd + UsdToCredits(usd.units)]

\* credits_to_usd: ValueError below zero, else credits / 1000 quantized to
\* 0.00000001 with ROUND_HALF_EVEN (the rest of the quotient is taken in
\* units of 1e-9 USD, a million to the credit, and rounded to ledger units)
credits_to_usd_Cents(credits) ==
    IF credits < 0
    THEN [error |-> "ValueError", usd |-> [dollars |-> 0, units |-> 0]]
    ELSE [error |-> "none",
          usd |-> [dollars |-> credits \div CreditsPerUsd,
                   units |-> RoundHalfEven(credits % CreditsPerUsd, 10)
                               * (10 * UnitsPerCredit)]]
credits_to_usd(credits) ==
    IF credits < 0
    THEN [error |-> "ValueError", usd |-> [dollars |-> 0, units |-> 0]]
    ELSE [error |-> "none",
          usd |-> [dollars |-> credits \div CreditsPerUsd,
                   units |-> RoundHalfEven((credits % CreditsPerUsd)
                                             * (10 * UnitsPerCredit), 10)]]

\* a caller converts an amount to credits
ConvertUsd(p) ==
    /\ Free(p)
    /\ \E usd \in UsdInputs :
         LET r == usd_to_credits(usd)
             c == [NoCall EXCEPT !.op = "usd_to_credits", !.usd = usd,
                                 !.credits = r.credits, !.error = r.error]
         IN Respond(p, c, ErrorStatus(IF r.error = "none" THEN "none"
                                      ELSE "VALIDATION_ERROR"), "none")
    /\ calls' = calls + 1
    /\ UNCHANGED <<dbVars, row_lock, notifications, gwVars, authVars, cacheVars>>

\* a caller converts a number of credits to an amount
ConvertCredits(p) ==
    /\ Free(p)
    /\ \E credits \in CreditInputs :
         LET r == credits_to_usd(credits)
             c == [NoCall EXCEPT !.op = "credits_to_usd", !.credits = credits,
                                 !.usd_out = r.usd, !.error = r.error]
         IN Respond(p, c, ErrorStatus(IF r.error = "none" THEN "none"
                                      ELSE "VALIDATION_ERROR"), "none")
    /\ calls' = calls + 1
    /\ UNCHANGED <<dbVars, row_lock, notifications, gwVars, authVars, cacheVars>>

\* the credits of a conversion are converted back
ConvertBack(p) ==
    /\ pc[p] = "done"
    /\ call[p].op = "usd_to_credits"
    /\ call[p].error = "none"
    /\ LET r == credits_to_usd(call[p].credits)
       IN Respond(p, [call[p] EXCEPT !.op = "round_trip", !.usd_out = r.usd,
                                     !.error = r.error], 200, "none")
    /\ UNCHANGED <<dbVars, row_lock, calls, notifications, gwVars, authVars, cacheVars>>

\* ------------------------------------------------------------------- Next
\* the ledger service, called directly
NextLedger ==
    \E p \in Procs :
        \/ AddFunds(p)
        \/ RecordUsage(p)
        \/ GetAccount(p)
        \/ InsertAccount(p)
        \/ AddFundsCommit(p)
        \/ RecordUsageCommit(p)

SpecLedger == Init /\ [][NextLedger]_vars

\* the two debit paths, record_usage and charge_usage, and the credits of
\* add_funds
NextDebit ==
    \E p \in Procs :
        \/ AddFunds(p)
        \/ RecordUsage(p)
        \/ ChargeUsage(p)
        \/ UpdateBalanceUsage(p)
        \/ GetAccount(p)
        \/ InsertAccount(p)
        \/ AddFundsCommit(p)
        \/ RecordUsageCommit(p)

SpecDebit == Init /\ [][NextDebit]_vars

\* the payment engine on top of the ledger service
NextEngine ==
    \E p \in Procs :
        \/ ChargeUsage(p)
        \/ UpdateBalanceUsage(p)
        \/ PaddleWebhook(p)
        \/ WebhookNotify(p)
        \/ GetAccount(p)
        \/ InsertAccount(p)
        \/ AddFundsCommit(p)
        \/ RecordUsageCommit(p)

SpecEngine == Init /\ [][NextEngine]_vars

\* the payment engine serving its requests in sequence: a request arrives
\* only when no other is in flight
InFlight(p) == pc[p] \notin {"idle", "done"}

Alone(p) == \A q \in Procs \ {p} : ~InFlight(q)

NextSequential ==
    \E p \in Procs :
        \/ Alone(p) /\ ChargeUsage(p)
        \/ Alone(p) /\ UpdateBalanceUsage(p)
        \/ Alone(p) /\ PaddleWebhook(p)
        \/ Alone(p) /\ WebhookNotify(p)
        \/ Alone(p) /\ GetAccount(p)
        \/ Alone(p) /\ InsertAccount(p)
        \/ Alone(p) /\ AddFundsCommit(p)
        \/ Alone(p) /\ RecordUsageCommit(p)

SpecSequential == Init /\ [][NextSequential]_vars

\* the webhook routes of the two card providers
NextWebhooks ==
    \E p \in Procs :
        \/ PaddleWebhook(p)
        \/ LemonSqueezyWebhook(p)
        \/ WebhookNotify(p)
        \/ GetAccount(p)
        \/ InsertAccount(p)
        \/ AddFundsCommit(p)

SpecWebhooks == Init /\ [][NextWebhooks]_vars

\* the quota engine called directly, by concurrent tasks
NextQuota ==
    \/ \E p \in Procs :
        \/ FreeTierCheckLimit(p)
        \/ FreeTierCheckLimitMonthly(p)
        \/ FreeTierRecordUsage(p)
    \/ StoreDown
    \/ StoreUp

SpecQuota == InitQuota /\ [][NextQuota]_vars

\* the quota engine at times of the day: 04:00, 12:00 and 20:00 of two days
DayClock ==
    {t \in 0 .. (2 * MinutesPerDay) :
        t % (MinutesPerDay \div 3) = MinutesPerDay \div 6}

InitResets ==
    /\ accounts = [a \in TelegramIds |-> [exists |-> FALSE, balance_usd |-> 0]]
    /\ transactions = {}
    /\ usage_logs = {}
    /\ next_id = Cardinality(TelegramIds) + 1
    /\ row_lock = [a \in TelegramIds |-> {}]
    /\ pc = [p \in Procs |-> "idle"]
    /\ call = [p \in Procs |-> NoCall]
    /\ calls = 0
    /\ notifications = {}
    /\ quota = [k \in QuotaKeys |-> NoCounters]
    /\ redis_up = TRUE
    /\ upstream_calls = 0
    /\ refresh_store = {}
    /\ magic = [a \in TelegramIds |-> NoMagic]
    /\ oauth_states = {}
    /\ issued_states = {}
    /\ next_token = 1
    /\ now \in DayClock
    /\ ColdCache

SpecResets == InitResets /\ [][NextQuota]_vars

\* check-then-record pairs of one caller, one after the other, on counters
\* that start absent
InitFresh == InitQuota /\ quota = [k \in QuotaKeys |-> NoCounters]

NextQuotaPairs ==
    \E p \in Procs :
        \/ Alone(p) /\ FreeTierCheckThenRecord(p)
        \/ Alone(p) /\ FreeTierCheckLimitMonthly(p)
        \/ Alone(p) /\ FreeTierRecordAfterCheck(p)

SpecQuotaPairs == InitFresh /\ [][NextQuotaPairs]_vars

\* the metered endpoints, with the ledger and the quota engine behind them
NextGateway ==
    \/ \E p \in Procs :
        \/ GatedRequest(p)
        \/ ProxyRequest(p)
        \/ FreeTierCheckLimitMonthly(p)
        \/ Dispatch(p)
        \/ TrackUsage(p)
        \/ GetAccount(p)
        \/ RecordUsageCommit(p)
        \/ FreeTierRecordAfterCheck(p)
        \/ FreeTierRemaining(p)

SpecGateway == InitGateway /\ [][NextGateway]_vars

\* anonymous requests while the store can stop answering
AnonymousRequest(p) ==
    /\ GatedRequest(p)
    /\ ~call'[p].authenticated

NextOutage ==
    \/ \E p \in Procs :
        \/ AnonymousRequest(p)
        \/ FreeTierCheckLimitMonthly(p)
        \/ Dispatch(p)
        \/ FreeTierRecordAfterCheck(p)
        \/ FreeTierRemaining(p)
    \/ StoreDown
    \/ StoreUp

InitOutage == InitGateway /\ accounts[1].balance_usd = 5000000

SpecOutage == InitOutage /\ [][NextOutage]_vars

\* later in the day: the caller has used two of the three daily chart2csv
\* extractions
InitLateDay ==
    /\ accounts = [a \in TelegramIds |->
                     [exists |-> a \in GatewayAccounts,
                      balance_usd |-> IF a \in GatewayAccounts THEN 5000000 ELSE 0]]
    /\ transactions = GatewaySeedRows(5000000)
    /\ usage_logs = {}
    /\ next_id = 4
    /\ row_lock = [a \in TelegramIds |-> {}]
    /\ pc = [p \in Procs |-> "idle"]
    /\ call = [p \in Procs |-> NoCall]
    /\ calls = 0
    /\ notifications = {}
    /\ quota = [k \in QuotaKeys |->
                  IF k[1] = "chart2csv"
                  THEN [daily |-> 2, monthly |-> 2, daily_ttl |-> DailyTtl,
                        monthly_ttl |-> MonthlyTtl]
                  ELSE NoCounters]
    /\ redis_up = TRUE
    /\ upstream_calls = 0
    /\ NoSessions
    /\ ColdCache

SpecLateDay == InitLateDay /\ [][NextOutage]_vars

\* sessions: refresh and logout
NextRefresh ==
    \/ \E p \in Procs :
        \/ RefreshAccessToken(p)
        \/ RefreshRotate(p)
        \/ Logout(p)
    \/ RefreshExpire

SpecRefresh == InitRefresh /\ [][NextRefresh]_vars

\* login by magic link
NextMagic ==
    \/ \E p \in Procs :
        \/ RequestMagicLink(p)
        \/ VerifyMagicLink(p)
        \/ VerifyCommit(p)
    \/ Tick

SpecMagic == InitMagic /\ [][NextMagic]_vars

\* login with Google
NextOAuth ==
    \/ \E p \in Procs :
        \/ GoogleInit(p)
        \/ GoogleCallback(p)
        \/ GoogleExchange(p)
    \/ Tick

SpecOAuth == InitOAuth /\ [][NextOAuth]_vars

\* login with Telegram: account 1 exists, account 2 does not
NextLogin ==
    \E p \in Procs :
        \/ LoginWithTelegram(p)
        \/ LoginCommit(p)
        \/ Logout(p)

SpecLogin == InitRefresh /\ [][NextLogin]_vars

\* the conversions between USD and credits
NextCredits ==
    \E p \in Procs :
        \/ ConvertUsd(p)
        \/ ConvertCredits(p)
        \/ ConvertBack(p)

SpecCredits == InitFresh /\ [][NextCredits]_vars

\* webhook events of a provider that holds the balance service
NextCreem ==
    \E p \in Procs :
        \/ CreemWebhook(p)
        \/ WebhookNotify(p)
        \/ GetAccount(p)
        \/ InsertAccount(p)
        \/ AddFundsCommit(p)

SpecCreem == Init /\ [][NextCreem]_vars

\* requests to the Paddle API
NextPaddleApi ==
    \E p \in Procs :
        \/ PaddleRequest(p)
        \/ PaddleAttempt(p)

SpecPaddleApi == InitFresh /\ [][NextPaddleApi]_vars

\* Telegram Stars invoices and their payments
NextStars ==
    \/ \E p \in Procs :
        \/ StarsCreateCheckout(p)
        \/ StarsWebhook(p)
        \/ WebhookNotify(p)
        \/ GetAccount(p)
        \/ InsertAccount(p)
        \/ AddFundsCommit(p)
    \/ StoreDown
    \/ StoreUp

SpecStars == Init /\ [][NextStars]_vars

\* a top-up and a charge of the cache runs: one key each, a cost that quantizes
\* to the seeded balance
CacheAddFunds(p) == AddFunds(p) /\ call'[p].idempotency_key = "k1"

CacheRecordUsage(p) ==
    RecordUsage(p) /\ call'[p].idempotency_key = "k2" /\ call'[p].amount = 6

\* the clock of the cache runs stops after two steps
CacheTick == Tick /\ now' <= 2 * TickMinutes

\* the ledger service and its balance cache, one call after the other, while
\* Redis goes down and comes back and time passes
NextCache ==
    \/ \E p \in Procs :
        \/ Alone(p) /\ GetCachedBalance(p)
        \/ Alone(p) /\ GetCachedFill(p)
        \/ Alone(p) /\ CacheAddFunds(p)
        \/ Alone(p) /\ CacheRecordUsage(p)
        \/ Alone(p) /\ GetAccount(p)
        \/ Alone(p) /\ InsertAccount(p)
        \/ Alone(p) /\ AddFundsCommit(p)
        \/ Alone(p) /\ RecordUsageCommit(p)
    \/ StoreDown
    \/ StoreUp
    \/ CacheTick
    \/ CacheExpire

SpecCache == InitCache /\ [][NextCache]_vars

Next == NextLedger \/ NextEngine \/ NextWebhooks \/ NextQuota \/ NextQuotaPairs
          \/ NextGateway \/ NextOutage \/ NextRefresh
          \/ NextMagic \/ NextOAuth \/ NextLogin \/ NextCredits
          \/ NextCreem \/ NextCache \/ NextStars
          \/ NextPaddleApi

Spec == Init /\ [][Next]_vars

\* ================================================================ claims
AccountRows(a) == {r \in transactions : r.account_id = a}
RowsBefore(a, t) == {r \in AccountRows(a) : r.id < t}
RowsWithKey(k) == {r \in transactions : r.idempotency_key = k}
Balance(a) == IF accounts[a].exists THEN accounts[a].balance_usd ELSE 0
Done(p) == pc[p] = "done"
\* p's step: every step of a task moves its position
StepOf(p) == pc'[p] # pc[p]

\* C1: every account's committed balance is the signed sum of the amounts of
\* its committed Transaction rows, and an account without a row has none,
\* whatever calls committed, failed or were rolled back.
C1_BalanceIsLedgerSum ==
    \A a \in TelegramIds :
        /\ accounts[a].exists => accounts[a].balance_usd = SumAmounts(AccountRows(a))
        /\ ~accounts[a].exists => AccountRows(a) = {}

\* a committed debit next to a call on the same account that failed and was
\* rolled back
C1_Witness ==
    \E p, q \in Procs :
        /\ p # q /\ Done(p) /\ Done(q)
        /\ call[p].op = "record_usage" /\ call[p].path = "committed"
        /\ call[q].telegram_id = call[p].telegram_id
        /\ call[q].error \in {"BALANCE_EXHAUSTED", "VALIDATION_ERROR"}
        /\ C1_BalanceIsLedgerSum

\* C2: no two committed Transaction rows share an idempotency key.
C2_UniqueIdempotencyKey ==
    \A r1, r2 \in transactions :
        r1.idempotency_key = r2.idempotency_key => r1 = r2

\* a topup and a usage of different accounts raced for one key: one row is
\* committed, the other call met the conflict
C2_Witness ==
    \E p, q \in Procs :
        /\ p # q /\ Done(p) /\ Done(q)
        /\ call[p].idempotency_key = call[q].idempotency_key
        /\ call[p].telegram_id # call[q].telegram_id
        /\ call[p].op = "add_funds" /\ call[p].path = "committed"
        /\ call[q].op = "record_usage" /\ call[q].path = "conflict"
        /\ Cardinality(RowsWithKey(call[p].idempotency_key)) = 1

\* C3: N >= 2 concurrent record_usage calls for one account with one key, each
\* of which passed the existence check, on a balance that covers the cost:
\* exactly one USAGE row is written, none of the calls ends in an error and all
\* return the initial balance minus the cost.
C3_ConcurrentSameKeyDebitsOnce ==
    \A p, q \in Procs :
        LET a == call[p].telegram_id
            k == call[p].idempotency_key
            cost == Quantize(call[p].amount)
            initial == SumAmounts(RowsBefore(a, call[p].t0))
        IN ( /\ p # q /\ Done(p) /\ Done(q)
             /\ call[p].op = "record_usage" /\ call[q].op = "record_usage"
             /\ call[q].telegram_id = a /\ call[q].idempotency_key = k
             /\ call[q].amount = call[p].amount
             /\ call[p].path # "short" /\ call[q].path # "short"
             /\ call[q].t0 = call[p].t0
             /\ accounts[a].exists /\ RowsBefore(a, call[p].t0) # {}
             /\ initial >= cost
             /\ \A r \in transactions : r.id >= call[p].t0 => r.idempotency_key = k )
           => /\ Cardinality(RowsWithKey(k)) = 1
              /\ call[p].error = "none" /\ call[q].error = "none"
              /\ call[p].result = initial - cost
              /\ call[q].result = initial - cost

\* C4: N concurrent record_usage calls for one account with N distinct keys and
\* one cost c > 0, with N * c above the balance B they found and nothing else
\* written meanwhile: exactly B \div c of them commit a debit and every other
\* one fails with BALANCE_EXHAUSTED.
Batch(S, a, t) ==
    /\ S # {}
    /\ \A p \in S :
         /\ Done(p) /\ call[p].op = "record_usage"
         /\ call[p].telegram_id = a /\ call[p].t0 = t
         /\ call[p].path # "short"
    /\ \A p, q \in S :
         /\ Quantize(call[p].amount) = Quantize(call[q].amount)
         /\ p # q => call[p].idempotency_key # call[q].idempotency_key
    \* the account was there before the calls, and the rows written since are
    \* those of the calls of S
    /\ RowsBefore(a, t) # {}
    /\ \A r \in transactions :
         r.id >= t => /\ r.account_id = a /\ r.type = "usage"
                      /\ \E p \in S : call[p].idempotency_key = r.idempotency_key
    /\ Cardinality({r \in transactions : r.id >= t})
         = Cardinality({p \in S : call[p].path = "committed"})

C4_ConcurrentDistinctKeys ==
    \A S \in SUBSET Procs : \A a \in TelegramIds : \A t \in 1..next_id :
        Batch(S, a, t) =>
            LET c == Quantize(call[CHOOSE p \in S : TRUE].amount)
                B == SumAmounts(RowsBefore(a, t))
            IN (c > 0 /\ Cardinality(S) * c > B) =>
                 /\ Cardinality({p \in S : call[p].path = "committed"}) = B \div c
                 /\ \A p \in S : call[p].path # "committed" =>
                                   call[p].error = "BALANCE_EXHAUSTED"

\* two calls found a balance that pays for one of them: one debit is
\* committed, the other call is refused
C4_Witness ==
    \E a \in TelegramIds : \E t \in 1..next_id :
        /\ Batch(Procs, a, t)
        /\ Cardinality(Procs) >= 2
        /\ SumAmounts(RowsBefore(a, t)) > 0
        /\ \E p, q \in Procs :
             /\ call[p].path = "committed"
             /\ call[q].error = "BALANCE_EXHAUSTED"

UsageTx(a, pr, cost) ==
    {r \in transactions : /\ r.type = "usage" /\ r.account_id = a
                          /\ r.product_id = pr /\ r.amount_usd = -cost}
UsageLogs(a, pr, cost) ==
    {u \in usage_logs : u.account_id = a /\ u.product_id = pr /\ u.cost_usd = cost}

NearestEven(cost) ==
    CHOOSE n \in 0..cost :
        /\ \A m \in 0..cost :
             (IF CostDenom * n >= cost THEN CostDenom * n - cost ELSE cost - CostDenom * n)
               <= (IF CostDenom * m >= cost THEN CostDenom * m - cost ELSE cost - CostDenom * m)
        /\ \/ 2 * CostDenom * n # 2 * cost + CostDenom /\ 2 * CostDenom * n # 2 * cost - CostDenom
           \/ n % 2 = 0

C7_InsufficientBalanceRejected ==
    [][\A p \in Procs :
         ( /\ StepOf(p) /\ pc[p] = "ru_commit"
           /\ call[p].op = "record_usage"
           /\ Balance(call[p].telegram_id) < NearestEven(call[p].amount) )
         => /\ pc'[p] = "done"
            /\ call'[p].error = "BALANCE_EXHAUSTED"
            /\ call'[p].status_code = 402
            /\ dbVars' = dbVars]_vars

\* a cost of one unit and a half was refused on a balance of one unit
C7_Witness ==
    \E p \in Procs :
        /\ Done(p) /\ call[p].op = "record_usage"
        /\ call[p].error = "BALANCE_EXHAUSTED" /\ call[p].status_code = 402
        /\ 2 * call[p].amount = 3 * CostDenom
        /\ Balance(call[p].telegram_id) = 1

\* C8: an add_funds call whose key already names a committed Transaction adds
\* no row, changes no balance and returns the current balance without an error.
C8_DuplicateCreditReturnsBalance ==
    \A p \in Procs :
        ( /\ Done(p) /\ call[p].op = "add_funds"
          /\ \E r \in RowsWithKey(call[p].idempotency_key) : r.id < call[p].t0 )
        => /\ call[p].error = "none"
           /\ call[p].result = Balance(call[p].telegram_id)

\* C9: a record_usage call whose key named a committed Transaction when the
\* call arrived writes nothing, and returns without an error the balance the
\* account has when it returns (0 for a telegram id still without an account;
\* an account that had no row when the call arrived and is created under it
\* is the case of account resolution, not of this property); no key ever has
\* two USAGE rows.
DuplicateDebit(p) ==
    /\ InFlight(p) /\ call[p].op = "record_usage"
    /\ \E r \in RowsWithKey(call[p].idempotency_key) : r.id < call[p].t0

C9_DebitIdempotentPerKey ==
    /\ [][\A p \in Procs :
            (DuplicateDebit(p) /\ StepOf(p))
            => /\ dbVars' = dbVars
               /\ ( /\ pc'[p] = "done"
                    /\ \/ RowsBefore(call[p].telegram_id, call[p].t0) # {}
                       \/ ~accounts[call[p].telegram_id].exists )
                  => /\ call'[p].error = "none"
                     /\ call'[p].result = Balance(call[p].telegram_id)]_vars
    /\ [](\A k \in Keys :
            Cardinality({r \in RowsWithKey(k) : r.type = "usage"}) <= 1)

\* a debit was repeated with its key on a balance below the cost and returned
\* the balance
C9_Witness ==
    \E p \in Procs :
        /\ Done(p) /\ call[p].op = "record_usage" /\ call[p].error = "none"
        /\ \E r \in RowsWithKey(call[p].idempotency_key) :
             /\ r.id < call[p].t0 /\ r.type = "usage"
             /\ r.account_id = call[p].telegram_id
        /\ call[p].result = Balance(call[p].telegram_id)
        /\ call[p].result < Quantize(call[p].amount)

\* C10: of the deliveries of a verified top-up event that arrive in sequence,
\* the one that finds no Transaction with the event's id is answered
\* "processed" with a transaction id and leaves exactly one TOPUP row of the
\* event's amount on the payer's account; every later one is answered
\* "ignored" and changes neither a row nor a balance.
TopUpDelivery(c) ==
    /\ c.op = "paddle_webhook"
    /\ c.event.event_type = "transaction.completed" /\ c.event.user_id # 0
    /\ c.signature.mac_ok /\ c.signature.age <= MaxWebhookAge

C10_Delivered ==
    \A p \in Procs :
        (Done(p) /\ TopUpDelivery(call[p])) =>
            LET e == call[p].event
                rows == RowsWithKey(e.event_id)
            IN /\ call[p].status_code = 200
               /\ Cardinality(rows) = 1
               /\ \A r \in rows : /\ r.type = "topup"
                                  /\ r.account_id = e.user_id
                                  /\ r.amount_usd = e.total * UnitsPerCent
               /\ IF \E r \in rows : r.id < call[p].t0
                  THEN call[p].response = "ignored"
                  ELSE call[p].response = "processed" /\ call[p].transaction_id # "none"

C10_WebhookReplayCreditsOnce ==
    /\ []C10_Delivered
    /\ [][\A p \in Procs :
            ( /\ StepOf(p) /\ ~InFlight(p) /\ TopUpDelivery(call'[p])
              /\ RowsWithKey(call'[p].event.event_id) # {} )
            => /\ dbVars' = dbVars
               /\ pc'[p] = "done"
               /\ call'[p].response = "ignored"]_vars

\* one delivery was processed and a later delivery of the same event ignored
C10_Witness ==
    \E p, q \in Procs :
        /\ p # q /\ Done(p) /\ Done(q)
        /\ TopUpDelivery(call[p]) /\ TopUpDelivery(call[q])
        /\ call[p].event = call[q].event
        /\ call[p].response = "processed" /\ call[q].response = "ignored"
        /\ call[p].t0 < call[q].t0
        /\ Balance(call[p].event.user_id) >= call[p].event.total * UnitsPerCent

\* C11: deliveries of one verified top-up event that all passed the engine's
\* idempotency check before any of them credited, on an account that was
\* there before them: exactly one credit is committed and every delivery is
\* answered with HTTP 200, as processed or as ignored.
PassedCheck(p) ==
    /\ Done(p) /\ TopUpDelivery(call[p])
    /\ call[p].idempotency_key = call[p].event.event_id

C11_ConcurrentDeliveriesAnswered200 ==
    \A p, q \in Procs :
        ( /\ p # q /\ PassedCheck(p) /\ PassedCheck(q)
          /\ call[p].event = call[q].event
          /\ RowsBefore(call[p].event.user_id, call[p].t0) # {}
          /\ RowsBefore(call[q].event.user_id, call[q].t0) # {} )
        => /\ Cardinality(RowsWithKey(call[p].event.event_id)) = 1
           /\ call[p].status_code = 200 /\ call[q].status_code = 200
           /\ call[p].response \in {"processed", "ignored"}
           /\ call[q].response \in {"processed", "ignored"}

\* C12: a webhook whose signature does not verify (a wrong MAC for either
\* provider, for Paddle also a timestamp older than five minutes) is answered
\* at once, whether or not its event was credited before: no row, no balance
\* and no notification changes, Paddle answers 200 with status "error" and
\* Lemon Squeezy answers 403.
Unverified(c) ==
    \/ c.op \in {"paddle_webhook", "lemonsqueezy_webhook"} /\ ~c.signature.mac_ok
    \/ c.op = "paddle_webhook" /\ c.signature.age > MaxWebhookAge

C12_InvalidSignatureMutatesNothing ==
    [][\A p \in Procs :
         (StepOf(p) /\ ~InFlight(p) /\ Unverified(call'[p]))
         => /\ dbVars' = dbVars /\ notifications' = notifications
            /\ pc'[p] = "done"
            /\ call'[p].op = "paddle_webhook" =>
                 call'[p].status_code = 200 /\ call'[p].response = "error"
            /\ call'[p].op = "lemonsqueezy_webhook" =>
                 call'[p].status_code = 403]_vars

\* each route refused a delivery whose MAC is wrong, and nothing was written
C12_Witness ==
    \E p, q \in Procs :
        /\ Done(p) /\ Done(q)
        /\ call[p].op = "paddle_webhook" /\ ~call[p].signature.mac_ok
        /\ call[p].status_code = 200 /\ call[p].response = "error"
        /\ call[q].op = "lemonsqueezy_webhook" /\ ~call[q].signature.mac_ok
        /\ call[q].status_code = 403
        /\ RowsWithKey(call[p].event.event_id) = {}
        /\ notifications = {}

\* a check_limit call of task p that returned a result
Checked(p) ==
    /\ call[p].op = "check_limit"
    /\ pc[p] \in {"ft_record", "done"}
    /\ call[p].error = "none"

\* C17: when one fresh identity runs check_limit followed by record_usage, one
\* unit each and one pair after the other, the first L_d checks are allowed
\* and every later check is refused with remaining_daily = 0 (L_d being the
\* product's daily limit); the daily counter never passes L_d.
C17_AllowedExactlyDailyLimitTimes ==
    /\ \A p \in Procs :
         Checked(p) /\ call[p].then_record =>
            LET L_d == FreeTierLimits(call[p].product_id).daily
            IN /\ call[p].allowed <=> call[p].seq <= L_d
               /\ ~call[p].allowed => call[p].remaining_daily = 0
    /\ \A k \in QuotaKeys : quota[k].daily <= FreeTierLimits(k[1]).daily

\* the fourth pair on chart2csv was refused after three were recorded
C17_Witness ==
    \E p \in Procs :
        /\ Checked(p) /\ call[p].then_record /\ Done(p)
        /\ call[p].product_id = "chart2csv"
        /\ call[p].seq = 4 /\ ~call[p].allowed /\ call[p].remaining_daily = 0
        /\ quota[<<"chart2csv", call[p].identifier>>].daily = 3

\* the limits a check_limit call of task p works with
LimitDaily(p) ==
    LET base == FreeTierLimits(call[p].product_id).daily
    IN IF call[p].progressive THEN (IF base \div 2 >= 1 THEN base \div 2 ELSE 1) ELSE base
LimitMonthly(p) ==
    LET base == FreeTierLimits(call[p].product_id).monthly
    IN IF call[p].progressive THEN (IF base \div 2 >= 1 THEN base \div 2 ELSE 1) ELSE base

C18_Result ==
    \A p \in Procs :
        Checked(p) =>
           /\ call[p].allowed <=>
                 /\ call[p].daily_used + call[p].units <= LimitDaily(p)
                 /\ call[p].monthly_used + call[p].units <= LimitMonthly(p)
           /\ call[p].remaining_daily =
                 IF LimitDaily(p) - call[p].daily_used > 0
                 THEN LimitDaily(p) - call[p].daily_used ELSE 0
           /\ call[p].remaining_monthly =
                 IF LimitMonthly(p) - call[p].monthly_used > 0
                 THEN LimitMonthly(p) - call[p].monthly_used ELSE 0

C18_Reads ==
    \A p \in Procs :
        LET k == <<call'[p].product_id, call'[p].identifier>>
        IN /\ (pc'[p] = "cl_monthly" /\ pc[p] # "cl_monthly")
              => call'[p].daily_used = quota[k].daily
           /\ (pc[p] = "cl_monthly" /\ pc'[p] # "cl_monthly" /\ call'[p].error = "none")
              => call'[p].monthly_used = quota[k].monthly

\* C18: check_limit allows exactly when daily_used + units <= L_d and
\* monthly_used + units <= L_m, and reports remaining_daily = max(0, L_d -
\* daily_used) and remaining_monthly = max(0, L_m - monthly_used), for every
\* value of the counters and every units >= 0; each used value is the counter
\* as the store holds it when check_limit reads it (0 for an absent key).
C18_CheckLimitResult == []C18_Result /\ [][C18_Reads]_vars

\* a check for two units refused by the monthly limit alone
C18_Witness ==
    \E p \in Procs :
        /\ Checked(p) /\ ~call[p].allowed
        /\ call[p].daily_used + call[p].units <= LimitDaily(p)
        /\ call[p].remaining_monthly = 1 /\ call[p].units = 2

\* what a step did to the counters of key k
Grown(k, units) ==
    /\ quota'[k].daily = quota[k].daily + units
    /\ quota'[k].monthly = quota[k].monthly + units
    /\ quota'[k].daily_ttl = DailyTtl
    /\ quota'[k].monthly_ttl = MonthlyTtl

C19_Step ==
    \/ quota' = quota
    \/ \E p \in Procs :
         /\ pc'[p] = "done" /\ call'[p].op = "quota_record_usage"
         /\ call'[p].error = "none" /\ call'[p].seq = calls'
         /\ Grown(<<call'[p].product_id, call'[p].identifier>>, call'[p].units)
         /\ \A k \in QuotaKeys \ {<<call'[p].product_id, call'[p].identifier>>} :
              quota'[k] = quota[k]

C19_Together ==
    \A k \in QuotaKeys :
        /\ quota[k].monthly - quota[k].daily \in UsedMonths
        /\ quota[k].daily > 0 => quota[k].daily_ttl = DailyTtl
        /\ quota[k].monthly > 0 => quota[k].monthly_ttl = MonthlyTtl

\* C19: record_usage of the quota engine adds exactly units to the daily and to
\* the monthly counter in one step and sets their TTLs to 48 h and 35 d: the
\* store is never in a state where one counter has grown without the other,
\* and every record call, whatever runs beside it, adds its units to both.
C19_RecordUsageAtomic == []C19_Together /\ [][C19_Step]_vars

\* two record calls were made while a check was between its two reads
C19_Witness ==
    \E k \in QuotaKeys :
        /\ quota[k].daily = 3
        /\ quota[k].monthly = 52
        /\ \E p \in Procs : call[p].op = "quota_record_usage" /\ Done(p)
                             /\ call[p].units = 2 /\ call[p].error = "none"

\* a request to a metered endpoint
Metered(c) == c.op \in GatedEndpoints \cup ProxyEndpoints
\* the step is one of task p
Moves(p) == call'[p] # call[p]

C13_Step ==
    \A p \in Procs :
        /\ (Moves(p) /\ Metered(call'[p]) /\ call'[p].upstream # "ok")
           => /\ dbVars' = dbVars
              /\ quota' = quota
        /\ (Moves(p) /\ pc[p] = "dispatch" /\ call'[p].upstream # "ok")
           => /\ pc'[p] = "done"
              /\ call'[p].status_code \in {500, 502, 503}

PriceOf(c) == Price(c.product_id) * c.units

C14_Step ==
    \A p \in Procs :
        \* arrival of an authenticated request whose account cannot pay it
        /\ (Moves(p) /\ pc[p] \in {"idle", "done"} /\ Metered(call'[p])
              /\ call'[p].authenticated /\ call'[p].balance_usd < PriceOf(call'[p]))
           => /\ pc'[p] = "done"
              /\ call'[p].upstream = "none"
              /\ upstream_calls' = upstream_calls
        \* the upstream call of an authenticated request
        /\ (Moves(p) /\ pc[p] = "dispatch" /\ call[p].authenticated)
           => call[p].balance_usd >= PriceOf(call[p])

\* C14: on each of the five metered endpoints an authenticated request whose
\* account holds less than the price of the request is rejected on arrival,
\* and an upstream call is made only for a request that passed this check.
C14_AdmissionPrecedesDispatch == [][C14_Step]_vars

\* credits is usd * 1000 rounded to the nearest integer, a tie to the even one
IsCreditsOf(credits, usd) ==
    LET d == usd - credits * UnitsPerCredit
        dist == IF d >= 0 THEN d ELSE -d
    IN /\ 2 * dist <= UnitsPerCredit
       /\ 2 * dist = UnitsPerCredit => credits % 2 = 0

C15_Step ==
    \A p \in Procs :
        (Moves(p) /\ pc[p] \in {"idle", "done"} /\ call'[p].op \in GatedEndpoints
           /\ call'[p].authenticated /\ call'[p].balance_usd < PriceOf(call'[p]))
        => /\ pc'[p] = "done"
           /\ call'[p].status_code = 402
           /\ call'[p].code = "INSUFFICIENT_CREDITS"
           /\ IsCreditsOf(call'[p].balance_credits, call'[p].balance_usd)
           /\ call'[p].required_credits * (UnitsPerCredit \div 1000) = PriceOf(call'[p])
           /\ dbVars' = dbVars

\* C15: on chart2csv/extract, masker/redact and patas/analyze an authenticated
\* request whose account holds less than the price, be the balance positive,
\* zero or negative, is answered 402 INSUFFICIENT_CREDITS with balance_credits
\* the balance in credits and required_credits the price, and changes nothing
\* in the ledger.
C15_InsufficientCreditsAnswer == [][C15_Step]_vars

\* a proxy/llm request that repeats a key: the debit of an earlier request of
\* the account under the caller's idempotency_key was committed before it came
Repeated(c) ==
    /\ c.op = "proxy_llm" /\ c.caller_key
    /\ \E r \in RowsBefore(c.telegram_id, c.t0) :
         r.idempotency_key = c.idempotency_key /\ r.type = "usage"

C16_Step ==
    \A p \in Procs :
        (Moves(p) /\ Repeated(call'[p]))
        => /\ upstream_calls' = upstream_calls
           /\ transactions' = transactions
           /\ accounts' = accounts

\* C16: of two POSTs to proxy/llm by one account with the same idempotency_key,
\* the first is forwarded upstream and debited, and the second, coming after
\* the first was debited, is neither forwarded upstream nor debited.
C16_RepeatedKeyNotForwarded == [][C16_Step]_vars

\* an anonymous request to a metered endpoint
Anonymous(c) == c.op \in GatedEndpoints /\ ~c.authenticated

C20_Step ==
    \A p \in Procs :
        \* arrival while the store does not answer
        /\ (Moves(p) /\ pc[p] \in {"idle", "done"} /\ Anonymous(call'[p]) /\ ~redis_up)
           => /\ pc'[p] = "done"
              /\ call'[p].status_code = 503
              /\ call'[p].upstream = "none"
              /\ upstream_calls' = upstream_calls
        \* an anonymous request is answered 200 only after its units were recorded
        /\ (Moves(p) /\ Anonymous(call'[p]) /\ call'[p].status_code = 200)
           => /\ pc[p] = "ft_remaining"
              /\ call[p].allowed

\* C20: an anonymous request that reaches a metered endpoint while the
\* key/value store is unreachable is rejected with 503 and not dispatched
\* upstream, and an anonymous request is served only after its quota was
\* checked and recorded.
C20_FailsClosedWith503 == [][C20_Step]_vars

\* the store of the next state holds an entry under the hash of a token
HeldAfter(token) == \E e \in refresh_store' : e.hash = Sha256(token)

C21_Step ==
    /\ \A p \in Procs :
         \* a refresh succeeds: the old entry is gone and the new one is there
         /\ (pc[p] = "rf_account" /\ call'[p].status_code = 200)
            => /\ ~HeldAfter(call[p].token)
               /\ call'[p].new_token # call[p].token
               /\ [hash |-> Sha256(call'[p].new_token),
                   account_id |-> call[p].telegram_id] \in refresh_store'
         \* a refresh attempt with a token that has no entry
         /\ (Moves(p) /\ pc[p] \in {"idle", "done"} /\ call'[p].op = "refresh"
               /\ RefreshEntries(Sha256(call'[p].token)) = {})
            => /\ pc'[p] = "done"
               /\ call'[p].status_code = 401
    \* a token whose entry is gone never gets one again
    /\ \A token \in KnownTokens :
         RefreshEntries(Sha256(token)) = {} => ~HeldAfter(token)

\* C21: a successful POST /auth/refresh with refresh token r0 removes the entry
\* of sha256(r0) from the store and leaves an entry for the new token r1; the
\* entry of r0 never comes back, and every refresh attempt that arrives after
\* that is answered 401.
C21_RefreshTokenRotates == [][C21_Step]_vars

\* token 1 was rotated into token 2, and a later attempt with token 1 got 401
C21_Witness ==
    \E p, q \in Procs :
        /\ Done(p) /\ call[p].op = "refresh" /\ call[p].token = 1
        /\ call[p].status_code = 200 /\ call[p].new_token = 2
        /\ Done(q) /\ call[q].op = "refresh" /\ call[q].token = 1
        /\ call[q].status_code = 401 /\ call[q].seq > call[p].seq
        /\ [hash |-> Sha256(2), account_id |-> 1] \in refresh_store

\* C22: of the POST /auth/verify calls that present one magic-link token, in
\* sequence or together, at most one is answered with a token pair (the
\* others get 400): no two calls succeed with the same token.
C22_MagicLinkVerifiedOnce ==
    \A p, q \in Procs :
        (/\ p # q
         /\ call[p].op = "verify" /\ call[q].op = "verify"
         /\ call[p].token = call[q].token
         /\ Done(p) /\ call[p].status_code = 200)
        => ~(Done(q) /\ call[q].status_code = 200)

\* C23: a callback accepts its state exactly when init minted that state less
\* than 10 minutes earlier and no callback has taken it yet (so a state
\* survives later inits, expires after 10 minutes and is accepted once).
Valid(state) ==
    \E e \in issued_states :
        e.state = state /\ ~e.used /\ now - e.at < OauthStateMinutes

C23_Step ==
    \A p \in Procs :
        (Moves(p) /\ pc[p] # "oa_exchange" /\ call'[p].op = "google_callback")
        => (call'[p].allowed <=> Valid(call'[p].token))

C23_StateAcceptedIffFreshAndUnused == [][C23_Step]_vars

\* C24: every get_or_create_account_by_telegram call, alone or together with
\* others for the same telegram id, returns the account without an error.
C24_AccountResolutionNeverFails ==
    \A p \in Procs :
        (Done(p) /\ call[p].op = "telegram_login")
        => (call[p].error = "none" /\ call[p].status_code = 200
            /\ accounts[call[p].telegram_id].exists)

\* C25: converting a non-negative amount that is a whole number of credits to
\* credits and back gives the amount again, among them $0, $0.001, $0.05, $5,
\* $10, $25 and $100.
WholeCredits(usd) == usd.dollars >= 0 /\ usd.units % UnitsPerCredit = 0

C25_RoundTrip ==
    \A p \in Procs :
        (Done(p) /\ call[p].op = "round_trip" /\ WholeCredits(call[p].usd))
        => (call[p].error = "none" /\ call[p].usd_out = call[p].usd)

C25_Witness ==
    \E p, q \in Procs :
        /\ Done(p) /\ call[p].op = "round_trip"
        /\ call[p].usd = [dollars |-> 0, units |-> 5000000]
        /\ call[p].usd_out = call[p].usd
        /\ Done(q) /\ call[q].op = "round_trip"
        /\ call[q].usd = [dollars |-> 100, units |-> 0]
        /\ call[q].credits = 100000

\* C26: usd_to_credits of x >= 0 is the integer nearest to x * 1000, the even
\* one of the two at a tie (0.5 -> 0, 1.5 -> 2); usd_to_credits and
\* credits_to_usd of a negative input fail with ValueError.
Nearest(usd, credits) ==
    LET rest == usd.units - (credits - usd.dollars * CreditsPerUsd) * UnitsPerCredit
        dist == IF rest < 0 THEN -rest ELSE rest
    IN /\ 2 * dist <= UnitsPerCredit
       /\ 2 * dist = UnitsPerCredit => credits % 2 = 0

C26_HalfEvenAndNegative ==
    \A p \in Procs :
        /\ (Done(p) /\ call[p].op = "usd_to_credits")
           => IF call[p].usd.dollars < 0
              THEN call[p].error = "ValueError"
              ELSE call[p].error = "none" /\ Nearest(call[p].usd, call[p].credits)
        /\ (Done(p) /\ call[p].op = "credits_to_usd")
           => (call[p].error = "ValueError" <=> call[p].credits < 0)

C26_Witness ==
    \E p, q \in Procs :
        /\ Done(p) /\ call[p].op = "usd_to_credits"
        /\ call[p].usd = [dollars |-> 0, units |-> 150000] /\ call[p].credits = 2
        /\ Done(q) /\ call[q].op = "credits_to_usd"
        /\ call[q].credits = -100 /\ call[q].error = "ValueError"

\* C27: once a verified top-up event has been handled by the engine, the
\* balance of its account is what it was before the event plus the amount of
\* the event: one ledger credit per event, also for Creem.
SeedBalance(a) == SumAmounts({r \in transactions : r.idempotency_key = SeedKey(a)})

C27_OneCreditPerEvent ==
    \A p \in Procs :
        (/\ Done(p)
         /\ call[p].op \in {"creem_provider", "creem_webhook"}
         /\ CreemVerify(call[p].signature)
         /\ CreemProcessWebhook(call[p].event).type = "topup")
        => LET a == call[p].event.user_id
           IN /\ accounts[a].exists
              /\ accounts[a].balance_usd =
                   SeedBalance(a) + CreemProcessWebhook(call[p].event).amount_usd

\* C28: the idempotency key of a webhook event is scoped by its provider:
\* a verified top-up event that was handled without error has its own credit
\* on its user's account, whatever events of other providers came before.
WebhookTransaction(c) ==
    IF c.op = "paddle_webhook" THEN PaddleProcessWebhook(c.event)
    ELSE LemonSqueezyProcessWebhook(c.event)

WebhookVerified(c) ==
    IF c.op = "paddle_webhook" THEN VerifyWebhook(c.signature)
    ELSE LemonSqueezyVerify(c.signature)

C28_KeyScopedByProvider ==
    \A p \in Procs :
        (/\ Done(p)
         /\ call[p].op \in {"paddle_webhook", "lemonsqueezy_webhook"}
         /\ call[p].error = "none"
         /\ WebhookVerified(call[p])
         /\ WebhookTransaction(call[p]).type = "topup")
        => \E r \in transactions :
              /\ r.account_id = WebhookTransaction(call[p]).user_id
              /\ r.amount_usd = WebhookTransaction(call[p]).amount_usd
              /\ r.idempotency_key # SeedKey(r.account_id)

\* C29: every authenticated request that passed the balance check of its
\* endpoint and whose upstream call succeeded ends metered, whatever other
\* requests on the account run beside it: when it is answered, the USAGE
\* Transaction of its key is committed and it ended without error.
C29_ServedImpliesMetered ==
    \A p \in Procs :
        (/\ Done(p) /\ call[p].op \in GatedEndpoints
         /\ call[p].authenticated /\ call[p].upstream = "ok")
        => /\ call[p].error = "none"
           /\ \E r \in transactions :
                 /\ r.idempotency_key = call[p].idempotency_key
                 /\ r.type = "usage"
                 /\ r.account_id = call[p].telegram_id

\* C30: however anonymous requests of one identity for one product overlap
\* within a day, the daily counter stays within the daily limit, and so does
\* the number of requests dispatched upstream (those of earlier in the day,
\* which the counter held at the start, and those dispatched since).
DispatchedSince(k) ==
    Cardinality({p \in Procs : /\ call[p].op = k[1] /\ call[p].identifier = k[2]
                               /\ ~call[p].authenticated
                               /\ call[p].upstream # "none"})

\* the requests of earlier in the day, as the counters of InitLateDay hold them
UsedEarlier(k) == IF k[1] = "chart2csv" THEN 2 ELSE 0

C30_DailyLimitNeverExceeded ==
    \A k \in QuotaKeys :
        /\ quota[k].daily <= GetLimits(k[1], FALSE).daily
        /\ UsedEarlier(k) + DispatchedSince(k) <= GetLimits(k[1], FALSE).daily

\* C31: of the POST /auth/refresh calls that present one refresh token, also
\* when they run together, at most one is answered with a new token pair.
C31_RefreshTokenRedeemedOnce ==
    \A p, q \in Procs :
        (/\ p # q
         /\ call[p].op = "refresh" /\ call[q].op = "refresh"
         /\ call[p].token = call[q].token
         /\ Done(p) /\ call[p].status_code = 200)
        => ~(Done(q) /\ call[q].status_code = 200)


\* C33: once five cache operations in a row have failed the breaker is OPEN,
\* whichever operation made the fifth, and it leaves OPEN or HALF_OPEN for
\* CLOSED only in a step whose cache operation succeeded.
C33_BreakerOpensAfterFiveFailures ==
    [][/\ cache_log'.failed_run >= RedisCbThreshold
          => redis_cb_state'.status = "OPEN"
       /\ (redis_cb_state.status # "CLOSED" /\ redis_cb_state'.status = "CLOSED")
          => cache_log'.failed_run = 0]_vars

\* C34: while the breaker is OPEN and the cooldown since the last failure has
\* not passed, no operation of the ledger service (get_cached_balance,
\* add_funds, record_usage, account creation) attempts a cache read or write.
C34_NoCacheOperationWhileOpen ==
    [][(redis_cb_state.status = "OPEN" /\ ~CooledDown(redis_cb_state))
          => cache_log'.ops = cache_log.ops]_vars

\* C35: once the cooldown has passed the breaker lets exactly one probe
\* operation through: no second cache operation is attempted while it is still
\* HALF_OPEN.
C35_ExactlyOneProbe == cache_log.probes <= 1

\* C36: the steps of record_usage after its commit are best-effort: a call
\* whose debit was committed returns the new balance without raising, also
\* when the audit record or the cache write failed.
C36_PostCommitBestEffort ==
    \A p \in Procs :
        (Done(p) /\ call[p].op = "record_usage" /\ call[p].path = "committed")
            => call[p].error = "none"

\* C37: after a credit or debit was committed, every later get_cached_balance
\* of the account returns the committed balance, also when the cache write of
\* that credit or debit failed or was skipped.
C37_CachedBalanceIsCommitted ==
    [][\A p \in Procs :
          ( /\ pc[p] # "done" \/ call'[p] # call[p]
            /\ pc'[p] = "done"
            /\ call'[p].op = "get_cached_balance"
            /\ call'[p].error = "none" )
          => call'[p].result = accounts'[call'[p].telegram_id].balance_usd]_vars

\* C32: the Telegram Stars provider makes a TOPUP Transaction only for a payer
\* who is the user of the PendingInvoice of the payload: when the two differ
\* no Transaction is made and no account is credited for the event.
C32_StarsPayerMatchesInvoice ==
    \A p \in Procs :
        ( /\ call[p].op = "stars_webhook"
          /\ call[p].pending_user # 0
          /\ call[p].pending_user # call[p].event.user_id )
        => /\ call[p].transaction_id = "none"
           /\ ~CheckIdempotency(call[p].event.event_id)

C39_DailyResetIsNextMidnight ==
    \A p \in Procs :
        (Done(p) /\ call[p].op = "check_limit" /\ call[p].status_code = 200)
        => /\ call[p].resets_at_daily =
                  (call[p].at \div MinutesPerDay + 1) * MinutesPerDay
           /\ call[p].resets_at_daily > call[p].at

\* C40: _request_with_retry makes at most max_retries (3) HTTP attempts; it
\* makes a further attempt only after a 429, a 5xx or a network error; a 4xx
\* other than 429 ends it at once with the ProviderError of the provider's
\* code; and it ends with a ProviderError whenever it ends without a
\* successful response, which it does at the latest with the third attempt.
C40_BoundedRetry ==
    [][\A p \in Procs :
         call'[p].op = "paddle_request" =>
           /\ call'[p].attempt <= MaxRetries
           /\ pc'[p] = "pr_attempt" => call'[p].attempt < MaxRetries
           /\ (call[p].op = "paddle_request" /\ call[p].attempt >= 1
               /\ call'[p].attempt > call[p].attempt)
              => call[p].upstream \in {"429", "5xx", "network"}
           /\ (pc'[p] = "done" /\ call'[p].upstream = "4xx")
              => call'[p].error = "ProviderError" /\ call'[p].code = "provider"
           /\ (pc'[p] = "done" /\ call'[p].upstream # "ok")
              => call'[p].error = "ProviderError"
           /\ (pc'[p] = "done" /\ call'[p].upstream = "ok")
              => call'[p].error = "none"]_vars

\* a request was rate-limited three times and ended with the ProviderError
\* max_retries, and another ended at its first attempt on a 4xx
C40_Witness ==
    \E p, q \in Procs :
        /\ Done(p) /\ call[p].op = "paddle_request"
        /\ call[p].attempt = MaxRetries /\ call[p].upstream = "429"
        /\ call[p].error = "ProviderError" /\ call[p].code = "max_retries"
        /\ Done(q) /\ call[q].op = "paddle_request"
        /\ call[q].attempt = 1 /\ call[q].upstream = "4xx"

====
